---- MODULE Spec2Model ----
(***************************************************************************)
(* Call-flow pipeline of the Android code visualiser:                      *)
(*   ASTParser.parseFile, buildFuncMap  (server/ast-parser.ts)             *)
(*   CallFlowTracer                     (server/call-flow-tracer.ts)       *)
(*   POST /api/projects/:id/call-flow   (server/routes.ts)                 *)
(*                                                                         *)
(* JavaScript strings are sequences of one-character strings, so that      *)
(* endsWith, includes and split are computed on the characters.  A JS      *)
(* object used as a map is the ordered sequence of its own properties      *)
(* plus the names it inherits from Object.prototype.  Arrays that are      *)
(* shared by reference (this.nodes, this.links) live in a heap.            *)
(***************************************************************************)
EXTENDS Integers, Sequences, FiniteSets, TLC

VARIABLES
    classes,        \* ParsedClass[] handed to buildFuncMap
    buildPos,       \* buildFuncMap: <<class index, method index>> of the next insertion, or Done
    funcMap,        \* FuncMap: sequence of [key, stmts], own properties in insertion order
    tracers,        \* the CallFlowTracer instances constructed so far
    visited,        \* tracer -> this.visited
    nodes,          \* tracer -> this.nodes   (a heap reference)
    links,          \* tracer -> this.links   (a heap reference)
    nodeIdCounter,  \* tracer -> this.nodeIdCounter
    heap,           \* reference -> array contents
    stack,          \* call stack of the running traceFromEntryMethod, top last
    active,         \* the tracer whose traceFromEntryMethod is running, or NoTracer
    outcomes,       \* what each traceFromEntryMethod call produced, in call order
    queryResult,    \* what the last getAllMethods / getAvailableEntryMethods call returned
    parser,         \* the locals of the running parseFile call
    requests,       \* the call-flow requests: position in the handler, locals, response
    store,          \* storage: the project files
    running,        \* the request whose handler is executing, or NoRequest
    projects,       \* MemStorage.projects: the values of the Map in insertion order
    projectFiles,   \* MemStorage.projectFiles, likewise
    codeComponents, \* MemStorage.codeComponents, likewise
    handlers        \* the upload and delete requests: locals and position of each handler

vars == <<classes, buildPos, funcMap, tracers, visited, nodes, links,
          nodeIdCounter, heap, stack, active, outcomes, queryResult,
          parser, requests, store, running, projects, projectFiles, codeComponents,
          handlers>>

storageVars == <<projects, projectFiles, codeComponents, handlers>>

serverVars == <<requests, store, running, storageVars>>

tracerVars == <<visited, nodes, links, nodeIdCounter, heap, stack, active, outcomes>>

----------------------------------------------------------------------------
(* Bounds *)

\* traceFromEntryMethod calls per behaviour
MaxTraces == 2

\* classes handed to buildFuncMap
MaxClasses == 2

\* call-stack frames; the guard on this bound is never the one that stops a trace
MaxDepth == 8

----------------------------------------------------------------------------
(* JavaScript strings *)

Dot == "."

Undefined == <<"undefined">>

Str_f == <<"f">>
Str_g == <<"g">>
Str_x == <<"x">>
Str_A == <<"A">>
Str_B == <<"B">>
Str_C == <<"C">>
Str_toString == <<"t","o","S","t","r","i","n","g">>
Str_valueOf == <<"v","a","l","u","e","O","f">>
Str_constructor == <<"c","o","n","s","t","r","u","c","t","o","r">>
Str_START == <<"S","T","A","R","T">>
Str_END == <<"E","N","D">>
Str_Unknown == <<"U","n","k","n","o","w","n">>
Str_Decision == <<"D","e","c","i","s","i","o","n">>
Str_Merge == <<"M","e","r","g","e">>
Str_LoopExit == <<"L","o","o","p"," ","E","x","i","t">>
Str_SpLoop == <<" ","L","o","o","p">>
Str_SpRef == <<" ","(","r","e","f",")">>
Str_for == <<"f","o","r">>
Str_while == <<"w","h","i","l","e">>
Str_do_while == <<"d","o","_","w","h","i","l","e">>

Str_onCreate == <<"o","n","C","r","e","a","t","e">>
Str_onStart == <<"o","n","S","t","a","r","t">>
Str_onResume == <<"o","n","R","e","s","u","m","e">>
Str_onPause == <<"o","n","P","a","u","s","e">>
Str_onStop == <<"o","n","S","t","o","p">>
Str_onDestroy == <<"o","n","D","e","s","t","r","o","y">>
Str_onActivityResult ==
    <<"o","n","A","c","t","i","v","i","t","y","R","e","s","u","l","t">>
Str_onRequestPermissionsResult ==
    <<"o","n","R","e","q","u","e","s","t","P","e","r","m","i","s","s","i","o","n","s",
      "R","e","s","u","l","t">>
Str_main == <<"m","a","i","n">>
Str_MainActivity == <<"M","a","i","n","A","c","t","i","v","i","t","y">>
Str_Utils == <<"U","t","i","l","s">>
Str_helper == <<"h","e","l","p","e","r">>
Str_Domain == <<"D","o","m","a","i","n">>

\* `${a}.${b}`
Qualified(a, b) == a \o <<Dot>> \o b

\* String.prototype.endsWith
EndsWith(s, suffix) ==
    /\ Len(s) >= Len(suffix)
    /\ SubSeq(s, Len(s) - Len(suffix) + 1, Len(s)) = suffix

\* String.prototype.includes
Includes(s, pattern) ==
    \E i \in 1..(Len(s) - Len(pattern) + 1) : SubSeq(s, i, i + Len(pattern) - 1) = pattern

\* String.prototype.split('.')
RECURSIVE SplitDot(_)
SplitDot(s) ==
    IF \A i \in 1..Len(s) : s[i] # Dot
    THEN <<s>>
    ELSE LET i == CHOOSE k \in 1..Len(s) : s[k] = Dot /\ \A j \in 1..(k - 1) : s[j] # Dot
         IN  <<SubSeq(s, 1, i - 1)>> \o SplitDot(SubSeq(s, i + 1, Len(s)))

UpperChar(c) ==
    CASE c = "f" -> "F" [] c = "o" -> "O" [] c = "r" -> "R" [] c = "w" -> "W"
      [] c = "h" -> "H" [] c = "i" -> "I" [] c = "l" -> "L" [] c = "e" -> "E"
      [] c = "d" -> "D" [] OTHER -> c

\* String.prototype.toUpperCase
ToUpperCase(s) == [i \in 1..Len(s) |-> UpperChar(s[i])]

extractClassName(fullMethodName) ==
    LET parts == SplitDot(fullMethodName)
    IN  IF Len(parts) > 1 THEN parts[1] ELSE Str_Unknown

extractMethodName(fullMethodName) ==
    LET parts == SplitDot(fullMethodName)
    IN  IF Len(parts) > 1 THEN parts[2] ELSE fullMethodName

----------------------------------------------------------------------------
(* Statements (ast-parser.ts) *)

Call(n) ==
    [type |-> "method_call", name |-> n, loopType |-> Undefined,
     trueBranch |-> <<>>, falseBranch |-> <<>>, body |-> <<>>]

Branch(t, f) ==
    [type |-> "if_statement", name |-> Undefined, loopType |-> Undefined,
     trueBranch |-> t, falseBranch |-> f, body |-> <<>>]

Loop(k, b) ==
    [type |-> "loop_statement", name |-> Undefined, loopType |-> k,
     trueBranch |-> <<>>, falseBranch |-> <<>>, body |-> b]

\* processStatement takes statement: any; a value whose type is none of the three
Other ==
    [type |-> "other", name |-> Undefined, loopType |-> Undefined,
     trueBranch |-> <<>>, falseBranch |-> <<>>, body |-> <<>>]

----------------------------------------------------------------------------
(* FuncMap: a plain object created by the literal {} *)

\* names an object created by {} inherits from Object.prototype (three of them;
\* hasOwnProperty, isPrototypeOf, __proto__ and the others behave alike)
ObjectPrototypeNames == {Str_toString, Str_valueOf, Str_constructor}

\* Object.keys(funcMap): own keys in insertion order (no key here is an array index)
ObjectKeys(fm) == [i \in 1..Len(fm) |-> fm[i].key]

HasOwn(fm, k) == \E i \in 1..Len(fm) : fm[i].key = k

\* funcMap[k]: the own property, else the inherited one, else undefined
FuncMapGet(fm, k) ==
    IF HasOwn(fm, k)
    THEN [kind |-> "array", stmts |-> fm[CHOOSE i \in 1..Len(fm) : fm[i].key = k].stmts]
    ELSE IF k \in ObjectPrototypeNames
         THEN [kind |-> "function", stmts |-> <<>>]
         ELSE [kind |-> "undefined", stmts |-> <<>>]

\* an array (even an empty one) and a function are truthy, undefined is not
Truthy(v) == v.kind # "undefined"

\* a read that stores the default it falls back to
FuncMapAfterGetStored(fm, k) ==
    IF HasOwn(fm, k) \/ k \in ObjectPrototypeNames
    THEN fm
    ELSE Append(fm, [key |-> k, stmts |-> <<>>])

\* the object after funcMap[k] was read: as it was
FuncMapAfterGet(fm, k) == fm

\* an existing key keeps the value it had
FuncMapSetKeepFirst(fm, k, v) ==
    IF HasOwn(fm, k) THEN fm ELSE Append(fm, [key |-> k, stmts |-> v])

\* funcMap[k] = v: a new key goes last, an existing key keeps its place
FuncMapSet(fm, k, v) ==
    IF HasOwn(fm, k)
    THEN [i \in 1..Len(fm) |-> IF fm[i].key = k THEN [key |-> k, stmts |-> v] ELSE fm[i]]
    ELSE Append(fm, [key |-> k, stmts |-> v])

\* a resolution that takes the last candidate
resolveLastMethodName(fm, methodName) ==
    LET Match(key) == EndsWith(key, <<Dot>> \o methodName) \/ key = methodName
        possibleNames == SelectSeq(ObjectKeys(fm), Match)
    IN  IF possibleNames # <<>> THEN possibleNames[Len(possibleNames)] ELSE methodName

resolveFullMethodName(fm, methodName) ==
    LET Match(key) == EndsWith(key, <<Dot>> \o methodName) \/ key = methodName
        possibleNames == SelectSeq(ObjectKeys(fm), Match)
    IN  IF possibleNames # <<>> /\ possibleNames[1] # <<>>
        THEN possibleNames[1]
        ELSE methodName

entryPatterns ==
    <<Str_onCreate, Str_onStart, Str_onResume, Str_onPause, Str_onStop, Str_onDestroy,
      Str_onActivityResult, Str_onRequestPermissionsResult, Str_main>>

getAvailableEntryMethods(fm) ==
    LET IsEntry(methodName) ==
            \E p \in 1..Len(entryPatterns) : Includes(methodName, entryPatterns[p])
    IN  SelectSeq(ObjectKeys(fm), IsEntry)

getAllMethods(fm) == ObjectKeys(fm)

----------------------------------------------------------------------------
(* CallFlowTracer: data *)

TracerIds == {"t1", "t2"}

NoTracer == "none"

NoQuery == [op |-> "none", value |-> <<>>]

Done == <<0, 0>>

\* `node_${n}`
NodeIdOf(n) == <<"node_", n>>

NoId == <<"node_", -1>>

\* condition and lineNumber are copied from the statement unread and are left out
FlowNode(id, type, name, className, loopType) ==
    [id |-> id, type |-> type, name |-> name, className |-> className,
     loopType |-> loopType]

FlowLink(source, target, type) == [source |-> source, target |-> target, type |-> type]

NoStmt == Call(Undefined)

Frame(fn, phase, entry, rest, cur, own, st, trueEnd) ==
    [fn |-> fn, phase |-> phase, entry |-> entry, rest |-> rest, cur |-> cur,
     own |-> own, st |-> st, trueEnd |-> trueEnd]

Top == stack[Len(stack)]

Pop(stk) == SubSeq(stk, 1, Len(stk) - 1)

\* a return value that the caller drops
ReturnToDropped(stk, id) == stk

\* the frame on top receives the value its callee returned
ReturnTo(stk, id) == [stk EXCEPT ![Len(stk)].cur = id]

\* the top frame's for-of loop has taken its next statement
Advance(stk) == [stk EXCEPT ![Len(stk)].rest = Tail(@)]

\* this.nodes.push(...) and this.links.push(...) of tracer t
Push(hp, t, newNodes, newLinks) ==
    [hp EXCEPT ![nodes[t]] = @ \o newNodes, ![links[t]] = @ \o newLinks]

\* a recursion guard that never finds the name
HasVisitedNever(vis, methodName) == FALSE

\* this.visited.has(methodName)
HasVisited(vis, methodName) == methodName \in vis

\* a reset that leaves the visited set as it is
ClearVisitedNot(vis) == vis

\* this.visited.clear()
ClearVisited(vis) == {}

\* a reset that leaves this.nodes referring to the array it had
KeepNodesRef(hp, old) == old

\* reset(): this.nodes = [] and this.links = [] are new arrays; old is the array
\* the field referred to before
NewNodesRef(hp, old) == Len(hp) + 1

\* a reset that leaves this.links referring to the array it had
KeepLinksRef(hp, old) == old

NewLinksRef(hp, old) == Len(hp) + 2

\* a counter that is read but not incremented
CounterAfterStuck(counter, n) == counter

\* generateNodeId: the value of the counter after n ids were taken
CounterAfter(counter, n) == counter + n

----------------------------------------------------------------------------
(* CallFlowTracer: operations *)

\* new CallFlowTracer(funcMap)
Construct(t) ==
    /\ buildPos = Done
    /\ active = NoTracer
    /\ t \notin tracers
    /\ t = "t1" \/ "t1" \in tracers
    /\ tracers' = tracers \cup {t}
    /\ visited' = [visited EXCEPT ![t] = {}]
    /\ heap' = heap \o << <<>>, <<>> >>
    /\ nodes' = [nodes EXCEPT ![t] = Len(heap) + 1]
    /\ links' = [links EXCEPT ![t] = Len(heap) + 2]
    /\ nodeIdCounter' = [nodeIdCounter EXCEPT ![t] = 0]
    /\ UNCHANGED <<parser, serverVars>>
    /\ UNCHANGED <<classes, buildPos, funcMap, stack, active, outcomes, queryResult>>

\* traceFromEntryMethod up to the call of traceMethod: reset() and the Start node
TraceFromEntryMethod(t, entryMethod) ==
    /\ active = NoTracer
    /\ t \in tracers
    /\ Len(outcomes) < MaxTraces
    /\ LET startNode == FlowNode(NodeIdOf(0), "start", Str_START, Undefined, Undefined)
           nodesRef == NewNodesRef(heap, nodes[t])
           linksRef == NewLinksRef(heap, links[t])
       IN  /\ visited' = [visited EXCEPT ![t] = ClearVisited(@)]
           /\ heap' = [heap \o << <<>>, <<>> >> EXCEPT ![nodesRef] = Append(@, startNode)]
           /\ nodes' = [nodes EXCEPT ![t] = nodesRef]
           /\ links' = [links EXCEPT ![t] = linksRef]
           /\ nodeIdCounter' = [nodeIdCounter EXCEPT ![t] = CounterAfter(0, 1)]
           /\ stack' = <<Frame("traceFromEntryMethod", "call", entryMethod, <<>>,
                               NoId, startNode.id, NoStmt, NoId)>>
           /\ active' = t
    /\ UNCHANGED <<parser, serverVars>>
    /\ UNCHANGED <<classes, buildPos, funcMap, tracers, outcomes, queryResult>>

\* traceMethod(methodName, parentNodeId) up to its for-of loop; callers is the
\* stack that waits for its return value
traceMethod(t, methodName, parentNodeId, callers) ==
    LET id == NodeIdOf(nodeIdCounter[t])
        refNode == FlowNode(id, "method", methodName \o Str_SpRef,
                            extractClassName(methodName), Undefined)
        methodNode == FlowNode(id, "method", extractMethodName(methodName),
                               extractClassName(methodName), Undefined)
        statements == FuncMapGet(funcMap, methodName)
    IN  /\ nodeIdCounter' = [nodeIdCounter EXCEPT ![t] = CounterAfter(@, 1)]
        /\ UNCHANGED <<nodes, links>>
        /\ IF HasVisited(visited[t], methodName)
           THEN /\ heap' = Push(heap, t, <<refNode>>, <<FlowLink(parentNodeId, id, "calls")>>)
                /\ stack' = ReturnTo(callers, id)
                /\ UNCHANGED <<funcMap, visited, active, outcomes>>
           ELSE /\ visited' = [visited EXCEPT ![t] = @ \cup {methodName}]
                /\ funcMap' = FuncMapAfterGet(funcMap, methodName)
                /\ heap' = Push(heap, t, <<methodNode>>,
                                <<FlowLink(parentNodeId, id, "calls")>>)
                /\ IF statements.kind = "function"
                   THEN \* for (const statement of <a function>): TypeError, not caught
                        /\ stack' = <<>>
                        /\ active' = NoTracer
                        /\ outcomes' = Append(outcomes,
                               [tracer |-> t, entryMethod |-> stack[1].entry,
                                kind |-> "TypeError", nodes |-> 0, links |-> 0])
                   ELSE /\ stack' = Append(callers,
                               Frame("traceMethod", "loop", Undefined, statements.stmts,
                                     id, id, NoStmt, NoId))
                        /\ UNCHANGED <<active, outcomes>>

\* const entryNodeId = this.traceMethod(entryMethod, startNode.id)
EnterEntryMethod ==
    /\ active # NoTracer
    /\ Top.fn = "traceFromEntryMethod" /\ Top.phase = "call"
    /\ Len(stack) < MaxDepth
    /\ traceMethod(active, Top.entry, Top.own,
                   [stack EXCEPT ![Len(stack)].phase = "after"])
    /\ UNCHANGED <<parser, serverVars>>
    /\ UNCHANGED <<classes, buildPos, tracers, queryResult>>

InLoop == active # NoTracer /\ Top.fn # "traceFromEntryMethod"

\* processStatement -> processMethodCall
ProcessMethodCall ==
    /\ InLoop /\ Top.rest # <<>> /\ Head(Top.rest).type = "method_call"
    /\ Len(stack) < MaxDepth
    /\ LET statement == Head(Top.rest)
           t == active
           fullMethodName == resolveFullMethodName(funcMap, statement.name)
           id == NodeIdOf(nodeIdCounter[t])
           callNode == FlowNode(id, "method", statement.name, Undefined, Undefined)
       IN  IF Truthy(FuncMapGet(funcMap, fullMethodName))
           THEN traceMethod(t, fullMethodName, Top.cur, Advance(stack))
           ELSE /\ heap' = Push(heap, t, <<callNode>>, <<FlowLink(Top.cur, id, "calls")>>)
                /\ nodeIdCounter' = [nodeIdCounter EXCEPT ![t] = CounterAfter(@, 1)]
                /\ stack' = ReturnTo(Advance(stack), id)
                /\ UNCHANGED <<funcMap, visited, nodes, links, active, outcomes>>
    /\ UNCHANGED <<parser, serverVars>>
    /\ UNCHANGED <<classes, buildPos, tracers, queryResult>>

\* traceMethod: the for-of loop is over, return currentNodeId
TraceMethodReturn ==
    /\ InLoop /\ Top.fn = "traceMethod" /\ Top.rest = <<>>
    /\ stack' = ReturnTo(Pop(stack), Top.cur)
    /\ UNCHANGED <<parser, serverVars>>
    /\ UNCHANGED <<classes, buildPos, funcMap, tracers, visited, nodes, links,
                   nodeIdCounter, heap, active, outcomes, queryResult>>

\* traceFromEntryMethod after traceMethod returned: the End node and the result
FinishTrace ==
    /\ active # NoTracer
    /\ Top.fn = "traceFromEntryMethod" /\ Top.phase = "after"
    /\ LET t == active
           endNode == FlowNode(NodeIdOf(nodeIdCounter[t]), "end", Str_END,
                               Undefined, Undefined)
       IN  /\ heap' = Push(heap, t, <<endNode>>, <<>>)
           /\ nodeIdCounter' = [nodeIdCounter EXCEPT ![t] = CounterAfter(@, 1)]
           /\ outcomes' = Append(outcomes,
                  [tracer |-> t, entryMethod |-> Top.entry, kind |-> "graph",
                   nodes |-> nodes[t], links |-> links[t]])
    /\ stack' = <<>>
    /\ active' = NoTracer
    /\ UNCHANGED <<parser, serverVars>>
    /\ UNCHANGED <<classes, buildPos, funcMap, tracers, visited, nodes, links,
                   queryResult>>

\* processIfStatement up to the loop over the true branch
ProcessIfStatement ==
    /\ InLoop /\ Top.rest # <<>> /\ Head(Top.rest).type = "if_statement"
    /\ Len(stack) < MaxDepth
    /\ LET statement == Head(Top.rest)
           t == active
           id == NodeIdOf(nodeIdCounter[t])
           decisionNode == FlowNode(id, "decision", Str_Decision, Undefined, Undefined)
       IN  /\ heap' = Push(heap, t, <<decisionNode>>,
                           <<FlowLink(Top.cur, id, "sequence")>>)
           /\ nodeIdCounter' = [nodeIdCounter EXCEPT ![t] = CounterAfter(@, 1)]
           /\ stack' = Append(Advance(stack),
                  Frame("processIfStatement", "true", Undefined, statement.trueBranch,
                        id, id, statement, NoId))
    /\ UNCHANGED <<parser, serverVars>>
    /\ UNCHANGED <<classes, buildPos, funcMap, tracers, visited, nodes, links, active,
                   outcomes, queryResult>>

\* processIfStatement: the true branch is folded, start on the false branch
IfFalseBranch ==
    /\ InLoop /\ Top.fn = "processIfStatement" /\ Top.phase = "true" /\ Top.rest = <<>>
    /\ stack' = [stack EXCEPT ![Len(stack)] =
                    Frame("processIfStatement", "false", Undefined, Top.st.falseBranch,
                          Top.own, Top.own, Top.st, Top.cur)]
    /\ UNCHANGED <<parser, serverVars>>
    /\ UNCHANGED <<classes, buildPos, funcMap, tracers, visited, nodes, links,
                   nodeIdCounter, heap, active, outcomes, queryResult>>

\* the links processIfStatement adds once the Merge node exists
MergeLinks(statement, decisionId, trueBranchEndId, falseBranchEndId, mergeId) ==
    (IF Len(statement.trueBranch) > 0
     THEN <<FlowLink(decisionId,
                     IF trueBranchEndId = decisionId THEN mergeId ELSE trueBranchEndId,
                     "if_true")>>
          \o (IF trueBranchEndId # decisionId
              THEN <<FlowLink(trueBranchEndId, mergeId, "sequence")>>
              ELSE <<>>)
     ELSE <<>>)
    \o
    (IF Len(statement.falseBranch) > 0
     THEN <<FlowLink(decisionId,
                     IF falseBranchEndId = decisionId THEN mergeId ELSE falseBranchEndId,
                     "if_false")>>
          \o (IF falseBranchEndId # decisionId
              THEN <<FlowLink(falseBranchEndId, mergeId, "sequence")>>
              ELSE <<>>)
     ELSE <<>>)

\* processIfStatement: both branches are folded, merge and return
IfMerge ==
    /\ InLoop /\ Top.fn = "processIfStatement" /\ Top.phase = "false" /\ Top.rest = <<>>
    /\ LET t == active
           statement == Top.st
           mergeId == NodeIdOf(nodeIdCounter[t])
           mergeNode == FlowNode(mergeId, "method", Str_Merge, Undefined, Undefined)
       IN  IF Len(statement.trueBranch) > 0 \/ Len(statement.falseBranch) > 0
           THEN /\ heap' = Push(heap, t, <<mergeNode>>,
                                MergeLinks(statement, Top.own, Top.trueEnd, Top.cur, mergeId))
                /\ nodeIdCounter' = [nodeIdCounter EXCEPT ![t] = CounterAfter(@, 1)]
                /\ stack' = ReturnTo(Pop(stack), mergeId)
           ELSE /\ stack' = ReturnTo(Pop(stack), Top.own)
                /\ UNCHANGED <<heap, nodeIdCounter>>
    /\ UNCHANGED <<parser, serverVars>>
    /\ UNCHANGED <<classes, buildPos, funcMap, tracers, visited, nodes, links, active,
                   outcomes, queryResult>>

\* processLoopStatement up to the loop over the body
ProcessLoopStatement ==
    /\ InLoop /\ Top.rest # <<>> /\ Head(Top.rest).type = "loop_statement"
    /\ Len(stack) < MaxDepth
    /\ LET statement == Head(Top.rest)
           t == active
           id == NodeIdOf(nodeIdCounter[t])
           loopNode == FlowNode(id, "loop", ToUpperCase(statement.loopType) \o Str_SpLoop,
                                Undefined, statement.loopType)
       IN  /\ heap' = Push(heap, t, <<loopNode>>, <<FlowLink(Top.cur, id, "sequence")>>)
           /\ nodeIdCounter' = [nodeIdCounter EXCEPT ![t] = CounterAfter(@, 1)]
           /\ stack' = Append(Advance(stack),
                  Frame("processLoopStatement", "body", Undefined, statement.body,
                        id, id, statement, NoId))
    /\ UNCHANGED <<parser, serverVars>>
    /\ UNCHANGED <<classes, buildPos, funcMap, tracers, visited, nodes, links, active,
                   outcomes, queryResult>>

\* the back link alone
LoopLinksBackOnly(loopId, bodyEndId, exitId) ==
    IF bodyEndId # loopId THEN <<FlowLink(bodyEndId, loopId, "loop_exit")>> ELSE <<>>

\* the links processLoopStatement adds after the body
LoopLinks(loopId, bodyEndId, exitId) ==
    (IF bodyEndId # loopId THEN <<FlowLink(bodyEndId, loopId, "loop_exit")>> ELSE <<>>)
    \o <<FlowLink(loopId, exitId, "loop_exit")>>

\* processLoopStatement: the body is folded, back link, Exit node, return
LoopExit ==
    /\ InLoop /\ Top.fn = "processLoopStatement" /\ Top.rest = <<>>
    /\ LET t == active
           exitId == NodeIdOf(nodeIdCounter[t])
           exitNode == FlowNode(exitId, "method", Str_LoopExit, Undefined, Undefined)
       IN  /\ heap' = Push(heap, t, <<exitNode>>, LoopLinks(Top.own, Top.cur, exitId))
           /\ nodeIdCounter' = [nodeIdCounter EXCEPT ![t] = CounterAfter(@, 1)]
           /\ stack' = ReturnTo(Pop(stack), exitId)
    /\ UNCHANGED <<parser, serverVars>>
    /\ UNCHANGED <<classes, buildPos, funcMap, tracers, visited, nodes, links, active,
                   outcomes, queryResult>>

\* processStatement, default case: return parentNodeId
ProcessOther ==
    /\ InLoop /\ Top.rest # <<>>
    /\ Head(Top.rest).type \notin {"method_call", "if_statement", "loop_statement"}
    /\ stack' = ReturnTo(Advance(stack), Top.cur)
    /\ UNCHANGED <<parser, serverVars>>
    /\ UNCHANGED <<classes, buildPos, funcMap, tracers, visited, nodes, links,
                   nodeIdCounter, heap, active, outcomes, queryResult>>

\* one step of the running (synchronous) traceFromEntryMethod call
Step ==
    \/ EnterEntryMethod
    \/ ProcessMethodCall
    \/ ProcessOther
    \/ ProcessIfStatement
    \/ IfFalseBranch
    \/ IfMerge
    \/ ProcessLoopStatement
    \/ LoopExit
    \/ TraceMethodReturn
    \/ FinishTrace

----------------------------------------------------------------------------
(* The function maps and entry names traced *)

Key_A_f == Qualified(Str_A, Str_f)
Key_B_g == Qualified(Str_B, Str_g)
Key_C_f == Qualified(Str_C, Str_f)

Callees == {Str_f, Str_g, Str_x, Str_toString}

Bodies == {<<>>, <<Call(Str_g)>>, <<Call(Str_x)>>}

PrimaryLists ==
    {<<>>}
    \cup {<<Call(c)>> : c \in Callees}
    \cup {<<Call(Str_g), Call(Str_x)>>, <<Call(Str_f), Call(Str_g)>>}
    \cup {<<Branch(t, e)>> : t \in Bodies, e \in Bodies}
    \cup {<<Loop(Str_for, b)>> : b \in Bodies \cup {<<Call(Str_f)>>}}
    \cup {<<Branch(<<Call(Str_g)>>, <<>>), Call(Str_f)>>,
          <<Loop(Str_do_while, <<Branch(<<>>, <<Call(Str_g)>>), Call(Str_x)>>),
            Call(Str_g)>>,
          <<Branch(<<Loop(Str_while, <<Call(Str_f)>>)>>, <<Branch(<<>>, <<>>)>>)>>,
          <<Branch(<<Other>>, <<>>), Loop(Str_for, <<Other>>)>>,
          <<Branch(<<Call(Str_g), Other>>, <<Other, Call(Str_x)>>)>>,
          <<Branch(<<Call(Str_toString)>>, <<>>)>>,
          <<Loop(Str_while, <<Call(Str_valueOf)>>)>>}

SecondaryLists == {<<>>, <<Call(Str_f)>>, <<Loop(Str_while, <<Call(Str_x)>>)>>}

Entry(k, l) == [key |-> k, stmts |-> l]

\* maps with a key that is a bare method name (FuncMap allows any string key)
BareKeyMaps ==
    {<<Entry(Str_g, <<Call(Str_x)>>), Entry(Key_B_g, <<>>), Entry(Key_A_f, <<Call(Str_g)>>)>>,
     <<Entry(Key_B_g, <<>>), Entry(Str_g, <<Call(Str_x)>>), Entry(Key_A_f, <<Call(Str_g)>>)>>,
     <<Entry(Str_g, <<>>), Entry(Key_A_f, <<Call(Str_g), Call(Str_g)>>)>>}

FuncMaps ==
    {<<>>}
    \cup {<<Entry(Key_A_f, p)>> : p \in PrimaryLists}
    \cup {<<Entry(Key_A_f, p), Entry(Key_B_g, q)>> : p \in PrimaryLists, q \in SecondaryLists}
    \cup {<<Entry(Key_B_g, q), Entry(Key_A_f, p)>> : p \in PrimaryLists, q \in SecondaryLists}
    \cup {<<Entry(Key_C_f, q), Entry(Key_A_f, p)>> : p \in PrimaryLists, q \in SecondaryLists}
    \cup BareKeyMaps

\* entry names: every key of the map, a name that is no key, an inherited name
EntryNames(fm) == {fm[i].key : i \in 1..Len(fm)} \cup {Str_x, Str_toString}

----------------------------------------------------------------------------
(* The parser and the server before any file is parsed or request received *)

\* null
Null == <<>>

\* parseFile is not running: its locals as lines 61-73 initialise them, no line read
ParserIdle ==
    [phase |-> "idle", lines |-> <<>>, language |-> "java", i |-> 0,
     classes |-> <<>>, currentClass |-> Null, currentMethod |-> Null,
     braceLevel |-> 0, inClass |-> FALSE, inMethod |-> FALSE, opened |-> <<>>]

RequestIds == {"r1", "r2", "r3"}

NoRequest == "none"

NoResponse == [status |-> 0]

\* a request that has not arrived yet
RequestIdle ==
    [pc |-> "idle", entryMethod |-> <<>>, files |-> <<>>, fileIndex |-> 0,
     arrival |-> 0, overlapped |-> FALSE, response |-> NoResponse]

\* the roles of the three requests to the upload and delete routes
HandlerIds == {"upload", "github", "delete"}

\* a handler before its request arrives; project is the id of the project it
\* created or was asked to delete
HandlerIdle ==
    [pc |-> "idle", project |-> NoRequest, files |-> <<>>, entries |-> <<>>,
     components |-> <<>>, fileId |-> Null, created |-> 0, fileCount |-> 0,
     classCount |-> 0, methodCount |-> 0, functionCount |-> 0, response |-> NoResponse]

\* new MemStorage() and no request yet
InitStorage ==
    /\ projects = <<>>
    /\ projectFiles = <<>>
    /\ codeComponents = <<>>
    /\ handlers = [h \in HandlerIds |-> HandlerIdle]

InitServer ==
    /\ parser = ParserIdle
    /\ requests = [r \in RequestIds |-> RequestIdle]
    /\ store = <<>>
    /\ running = NoRequest
    /\ InitStorage

----------------------------------------------------------------------------
(* Tracing a given function map *)

InitTracers ==
    /\ tracers = {}
    /\ visited = [t \in TracerIds |-> {}]
    /\ nodes = [t \in TracerIds |-> 0]
    /\ links = [t \in TracerIds |-> 0]
    /\ nodeIdCounter = [t \in TracerIds |-> 0]
    /\ heap = <<>>
    /\ stack = <<>>
    /\ active = NoTracer
    /\ outcomes = <<>>
    /\ queryResult = NoQuery

Init ==
    /\ classes = <<>>
    /\ buildPos = Done
    /\ funcMap \in FuncMaps
    /\ InitTracers
    /\ InitServer

Next ==
    \/ \E t \in TracerIds : Construct(t)
    \/ \E t \in TracerIds : \E e \in EntryNames(funcMap) : TraceFromEntryMethod(t, e)
    \/ Step

Spec == Init /\ [][Next]_vars

\* traceFromEntryMethod is synchronous: once called it runs to its end
FairSpec == Spec /\ WF_vars(Step)

----------------------------------------------------------------------------
(* Returned graphs *)

Graphs == {i \in 1..Len(outcomes) : outcomes[i].kind = "graph"}

GraphNodes(i) == heap[outcomes[i].nodes]

GraphLinks(i) == heap[outcomes[i].links]

Running == active # NoTracer

\* the arrays the running tracer is filling
CurNodes == heap[nodes[active]]

CurLinks == heap[links[active]]

----------------------------------------------------------------------------
(* Termination *)

\* Every traceFromEntryMethod call ends (by returning or by throwing), on every
\* map, including maps with self-recursive and mutually recursive methods.
TraceTerminates == Running ~> ~Running

\* The bound on the stack depth never stops a trace.
StackWithinBound == Len(stack) < MaxDepth

\* C1: every traceFromEntryMethod call, on every function map and every entry
\* name, ends and its result is a graph: a running call can always take its next
\* step, and no call that has ended ended otherwise than by returning a graph.
C1_TraceReturnsGraph ==
    /\ Running => ENABLED Step
    /\ \A i \in 1..Len(outcomes) : outcomes[i].kind = "graph"

----------------------------------------------------------------------------
(* The recursion guard *)

\* the next step calls traceMethod
TraceMethodReached ==
    /\ Running
    /\ \/ Top.fn = "traceFromEntryMethod" /\ Top.phase = "call"
       \/ /\ Top.fn # "traceFromEntryMethod"
          /\ Top.rest # <<>>
          /\ Head(Top.rest).type = "method_call"
          /\ Truthy(FuncMapGet(funcMap,
                               resolveFullMethodName(funcMap, Head(Top.rest).name)))

\* the name and the parent id it calls traceMethod with
ReachedName ==
    IF Top.fn = "traceFromEntryMethod"
    THEN Top.entry
    ELSE resolveFullMethodName(funcMap, Head(Top.rest).name)

ReachedParent == IF Top.fn = "traceFromEntryMethod" THEN Top.own ELSE Top.cur

IsMethodNodeOf(n, methodName) ==
    /\ n.type = "method"
    /\ n.name = extractMethodName(methodName)
    /\ n.className = extractClassName(methodName)

\* traceMethod reached with a visited name: one new reference node, one calls
\* link to it, its id returned to the caller, no frame for the name's statements
ReferenceStep ==
    (TraceMethodReached /\ ReachedName \in visited[active]) =>
        LET t == active
            before == heap[nodes[t]]
            after == heap'[nodes'[t]]
            ref == after[Len(after)]
        IN  /\ Len(after) = Len(before) + 1
            /\ SubSeq(after, 1, Len(before)) = before
            /\ ref.type = "method"
            /\ ref.name = ReachedName \o Str_SpRef
            /\ \A j \in 1..Len(before) : before[j].id # ref.id
            /\ heap'[links'[t]] =
                   Append(heap[links[t]], FlowLink(ReachedParent, ref.id, "calls"))
            /\ Len(stack') = Len(stack)
            /\ stack'[Len(stack')].cur = ref.id
            /\ visited' = visited

\* traceMethod reached with a name not yet visited: the name becomes visited, one
\* Method node and one calls link are added, and a frame over the statements the
\* map holds for the name is entered
UnfoldStep ==
    (TraceMethodReached /\ ReachedName \notin visited[active]) =>
        LET t == active
            before == heap[nodes[t]]
            after == heap'[nodes'[t]]
            new == after[Len(after)]
        IN  /\ Len(after) = Len(before) + 1
            /\ SubSeq(after, 1, Len(before)) = before
            /\ IsMethodNodeOf(new, ReachedName)
            /\ heap'[links'[t]] =
                   Append(heap[links[t]], FlowLink(ReachedParent, new.id, "calls"))
            /\ visited'[t] = visited[t] \cup {ReachedName}
            /\ HasOwn(funcMap, ReachedName) =>
                   /\ Len(stack') = Len(stack) + 1
                   /\ stack'[Len(stack')].fn = "traceMethod"
                   /\ stack'[Len(stack')].rest = FuncMapGet(funcMap, ReachedName).stmts

\* no name has two unfolded Method nodes in one trace
UnfoldedOnce ==
    \A t \in tracers : nodes[t] # 0 =>
        \A methodName \in visited[t] :
            Cardinality({j \in 1..Len(heap[nodes[t]]) :
                            IsMethodNodeOf(heap[nodes[t]][j], methodName)}) <= 1

MutualMap == <<Entry(Key_A_f, <<Call(Str_g)>>), Entry(Key_B_g, <<Call(Str_f)>>)>>

NodeKinds(ns) == [j \in 1..Len(ns) |-> <<ns[j].type, ns[j].name>>]

\* A calls B and B calls A: the trace from A is Start, A, B, reference to A, End
MutualExample ==
    \A i \in Graphs :
        (funcMap = MutualMap /\ outcomes[i].entryMethod = Key_A_f) =>
            NodeKinds(GraphNodes(i)) =
                << <<"start", Str_START>>, <<"method", Str_f>>, <<"method", Str_g>>,
                   <<"method", Key_A_f \o Str_SpRef>>, <<"end", Str_END>> >>

\* C2: within one trace a method name is unfolded at most once; traceMethod
\* reached with a name already visited adds exactly one reference node named
\* 'N (ref)' and one calls link parent -> ref, returns the ref id and enters no
\* frame for N's statements; reached with a new name it adds the Method node and
\* enters N's statements.  With A calling B and B calling A the trace from A is
\* Start, A, B, reference to A, End.
C2_UnfoldedAtMostOnce ==
    /\ [][ReferenceStep /\ UnfoldStep]_vars
    /\ [](UnfoldedOnce /\ MutualExample)

\* a returned graph of the mutual-recursion map, traced from A, holds a reference node
C2_Witness ==
    \E i \in Graphs :
        /\ funcMap = MutualMap
        /\ outcomes[i].entryMethod = Key_A_f
        /\ \E j \in 1..Len(GraphNodes(i)) : GraphNodes(i)[j].name = Key_A_f \o Str_SpRef

----------------------------------------------------------------------------
(* Determinism and reset *)

SameGraph(i, j) == GraphNodes(i) = GraphNodes(j) /\ GraphLinks(i) = GraphLinks(j)

\* the state reset() and the Start node leave: what a new instance would hold
FreshlyStarted(t) ==
    /\ visited[t] = {}
    /\ nodeIdCounter[t] = 1
    /\ heap[nodes[t]] = <<FlowNode(NodeIdOf(0), "start", Str_START, Undefined, Undefined)>>
    /\ heap[links[t]] = <<>>

\* C3: on one function map, any two traceFromEntryMethod calls with the same entry
\* name return the same node and link sequences, whether made on two instances or
\* on one instance that has traced before; every call starts from an empty visited
\* set and ids restarting at node_0.
C3_Deterministic ==
    /\ \A i \in Graphs : \A j \in Graphs :
           outcomes[i].entryMethod = outcomes[j].entryMethod => SameGraph(i, j)
    /\ (Running /\ Top.fn = "traceFromEntryMethod" /\ Top.phase = "call")
           => FreshlyStarted(active)

\* one instance has returned two graphs for the same entry, with a call unfolded
C3_Witness ==
    \E i \in Graphs : \E j \in Graphs :
        /\ i < j
        /\ outcomes[i].tracer = outcomes[j].tracer
        /\ outcomes[i].entryMethod = outcomes[j].entryMethod
        /\ Len(GraphNodes(j)) > 3

\* two instances have returned graphs for the same entry, with a call unfolded
TwoInstancesTraced ==
    \E i \in Graphs : \E j \in Graphs :
        /\ outcomes[i].tracer # outcomes[j].tracer
        /\ outcomes[i].entryMethod = outcomes[j].entryMethod
        /\ Len(GraphNodes(j)) > 3

----------------------------------------------------------------------------
(* Shape of a returned graph *)

NodeIds(ns) == {ns[j].id : j \in 1..Len(ns)}

HasNode(ns, type, name) == \E j \in 1..Len(ns) : ns[j].type = type /\ ns[j].name = name

\* C4: in every returned graph each link's source and target is the id of a node
\* of that graph's node list.
C4_NoDanglingLinks ==
    \A i \in Graphs : \A k \in 1..Len(GraphLinks(i)) :
        /\ GraphLinks(i)[k].source \in NodeIds(GraphNodes(i))
        /\ GraphLinks(i)[k].target \in NodeIds(GraphNodes(i))

\* a returned graph with a Loop nested in a Branch: decision, loop, exit and merge nodes
C4_Witness ==
    \E i \in Graphs :
        /\ HasNode(GraphNodes(i), "decision", Str_Decision)
        /\ HasNode(GraphNodes(i), "loop", ToUpperCase(Str_while) \o Str_SpLoop)
        /\ HasNode(GraphNodes(i), "method", Str_LoopExit)
        /\ HasNode(GraphNodes(i), "method", Str_Merge)
        /\ \E k \in 1..Len(GraphLinks(i)) : GraphLinks(i)[k].type = "if_false"

\* C5: in every returned graph the i-th node (0-based) has id node_i, so ids are
\* pairwise distinct and increase in creation order; the Start node is first with
\* node_0 and the End node is last with the largest id.
C5_IdsInCreationOrder ==
    \A i \in Graphs :
        LET ns == GraphNodes(i)
        IN  /\ \A j \in 1..Len(ns) : ns[j].id = NodeIdOf(j - 1)
            /\ \A j \in 1..Len(ns) : \A k \in 1..Len(ns) : j # k => ns[j].id # ns[k].id
            /\ \A j \in 1..Len(ns) : ns[j].type = "start" <=> j = 1
            /\ \A j \in 1..Len(ns) : ns[j].type = "end" <=> j = Len(ns)
            /\ Len(ns) >= 2

\* a returned graph of more than five nodes
C5_Witness == \E i \in Graphs : Len(GraphNodes(i)) > 5

----------------------------------------------------------------------------
(* Names the map does not hold *)

\* the entry's statement list is empty, or the entry is no key of the map
EmptyOrAbsent(fm, entryMethod) ==
    \/ ~HasOwn(fm, entryMethod)
    \/ fm[CHOOSE k \in 1..Len(fm) : fm[k].key = entryMethod].stmts = <<>>

\* the call returned Start, the entry's Method node, End and the one calls link
JustTheMethodNode(i) ==
    /\ outcomes[i].kind = "graph"
    /\ Len(GraphNodes(i)) = 3
    /\ GraphNodes(i)[1].type = "start"
    /\ IsMethodNodeOf(GraphNodes(i)[2], outcomes[i].entryMethod)
    /\ GraphNodes(i)[3].type = "end"
    /\ GraphLinks(i) = <<FlowLink(GraphNodes(i)[1].id, GraphNodes(i)[2].id, "calls")>>

\* C6: a trace whose entry name has an empty statement list, or is no key of the
\* function map, raises no error and returns exactly Start, one Method node for
\* the entry, End, and exactly one link, of kind calls, from Start to that node.
C6_EmptyOrAbsentEntry ==
    \A i \in 1..Len(outcomes) :
        EmptyOrAbsent(funcMap, outcomes[i].entryMethod) => JustTheMethodNode(i)

\* The same, for entry names that Object.prototype does not define.
EmptyOrAbsentEntryNotInherited ==
    \A i \in 1..Len(outcomes) :
        (/\ EmptyOrAbsent(funcMap, outcomes[i].entryMethod)
         /\ outcomes[i].entryMethod \notin ObjectPrototypeNames) => JustTheMethodNode(i)

\* the next step processes a Call whose callee name matches no key of the map
UnresolvedCallReached ==
    /\ Running
    /\ Top.fn # "traceFromEntryMethod"
    /\ Top.rest # <<>>
    /\ Head(Top.rest).type = "method_call"
    /\ \A k \in 1..Len(funcMap) :
           /\ ~EndsWith(funcMap[k].key, <<Dot>> \o Head(Top.rest).name)
           /\ funcMap[k].key # Head(Top.rest).name

\* one leaf Method node with the callee name, one calls link parent -> leaf, the
\* leaf id handed to the caller, nothing unfolded and nothing thrown
LeafStep ==
    LET t == active
        before == heap[nodes[t]]
        after == heap'[nodes'[t]]
        leaf == after[Len(after)]
    IN  /\ Len(after) = Len(before) + 1
        /\ SubSeq(after, 1, Len(before)) = before
        /\ leaf.type = "method"
        /\ leaf.name = Head(Top.rest).name
        /\ heap'[links'[t]] = Append(heap[links[t]], FlowLink(Top.cur, leaf.id, "calls"))
        /\ Len(stack') = Len(stack)
        /\ stack'[Len(stack')].cur = leaf.id
        /\ stack'[Len(stack')].rest = Tail(Top.rest)
        /\ visited' = visited
        /\ outcomes' = outcomes

\* C7: a Call whose callee name matches no key of the function map, whatever the
\* name, is no error: it adds exactly one leaf Method node carrying the callee
\* name and one calls link parent -> leaf, returns the leaf id and expands nothing.
C7_UnresolvedCallIsLeaf == [][UnresolvedCallReached => LeafStep]_vars

\* The same, for callee names that Object.prototype does not define.
UnresolvedCallIsLeafNotInherited ==
    [][(UnresolvedCallReached /\ Head(Top.rest).name \notin ObjectPrototypeNames)
          => LeafStep]_vars

----------------------------------------------------------------------------
(* ASTParser.buildFuncMap and the queries on the map *)

\* a ParsedMethod as parseFile fills it: fullName is `${className}.${name}`
ParsedMethod(className, name, statements) ==
    [name |-> name, className |-> className, fullName |-> Qualified(className, name),
     statements |-> statements]

ParsedClass(name, methods) == [name |-> name, methods |-> methods]

\* the first method at or after class ci, method mi, or Done
RECURSIVE PosFrom(_, _, _)
PosFrom(cs, ci, mi) ==
    IF ci > Len(cs) THEN Done
    ELSE IF mi <= Len(cs[ci].methods) THEN <<ci, mi>>
    ELSE PosFrom(cs, ci + 1, 1)

\* the map is keyed by the bare method name
BuildKeyByName(method) == method.name

\* the key buildFuncMap stores a method under
BuildKey(method) == method.fullName

\* buildFuncMap: one iteration of the inner forEach
BuildFuncMapStep ==
    /\ buildPos # Done
    /\ LET method == classes[buildPos[1]].methods[buildPos[2]]
       IN  /\ funcMap' = FuncMapSet(funcMap, BuildKey(method), method.statements)
           /\ buildPos' = PosFrom(classes, buildPos[1], buildPos[2] + 1)
    /\ UNCHANGED <<parser, serverVars>>
    /\ UNCHANGED <<classes, tracers, queryResult>>
    /\ UNCHANGED tracerVars

GetAllMethods(t) ==
    /\ t \in tracers
    /\ active = NoTracer
    /\ queryResult' = [op |-> "getAllMethods", value |-> getAllMethods(funcMap)]
    /\ UNCHANGED <<parser, serverVars>>
    /\ UNCHANGED <<classes, buildPos, funcMap, tracers>>
    /\ UNCHANGED tracerVars

GetAvailableEntryMethods(t) ==
    /\ t \in tracers
    /\ active = NoTracer
    /\ queryResult' = [op |-> "getAvailableEntryMethods",
                       value |-> getAvailableEntryMethods(funcMap)]
    /\ UNCHANGED <<parser, serverVars>>
    /\ UNCHANGED <<classes, buildPos, funcMap, tracers>>
    /\ UNCHANGED tracerVars

ClassNames == {Str_MainActivity, Str_Utils, Str_Domain}

MethodShapes == {<<Str_onCreate, <<>>>>, <<Str_helper, <<>>>>, <<Str_helper, <<Call(Str_x)>>>>}

MethodsOf(cn) == {ParsedMethod(cn, sh[1], sh[2]) : sh \in MethodShapes}

\* no method, one method or two methods
MethodListsOf(cn) ==
    {<<>>} \cup {<<m>> : m \in MethodsOf(cn)}
           \cup {<<m, n>> : m \in MethodsOf(cn), n \in MethodsOf(cn)}

Classes == UNION {{ParsedClass(cn, ml) : ml \in MethodListsOf(cn)} : cn \in ClassNames}

ClassLists == UNION {[1..k -> Classes] : k \in 0..MaxClasses}

InitMap ==
    /\ classes \in ClassLists
    /\ buildPos = PosFrom(classes, 1, 1)
    /\ funcMap = <<>>
    /\ InitTracers
    /\ InitServer

NextMap ==
    \/ BuildFuncMapStep
    \/ \E t \in TracerIds : Construct(t)
    \/ \E t \in TracerIds : GetAllMethods(t)
    \/ \E t \in TracerIds : GetAvailableEntryMethods(t)

SpecMap == InitMap /\ [][NextMap]_vars

----------------------------------------------------------------------------
(* Entry methods *)

\* the part of a key after its class prefix
MethodNamePortion(key) ==
    IF \E i \in 1..Len(key) : key[i] = Dot
    THEN LET i == CHOOSE k \in 1..Len(key) : key[k] = Dot /\ \A j \in 1..(k - 1) : key[j] # Dot
         IN  SubSeq(key, i + 1, Len(key))
    ELSE key

HasEntryPattern(str) == \E p \in 1..Len(entryPatterns) : Includes(str, entryPatterns[p])

NameIsEntry(key) == HasEntryPattern(MethodNamePortion(key))

Key_MainActivity_onCreate == Qualified(Str_MainActivity, Str_onCreate)

Key_Utils_helper == Qualified(Str_Utils, Str_helper)

Key_Domain_helper == Qualified(Str_Domain, Str_helper)

\* C8: getAvailableEntryMethods returns, in map order, exactly the keys whose
\* method-name portion contains one of the nine entry patterns; a key whose class
\* portion alone contains one is not returned; for a map with
\* MainActivity.onCreate and Utils.helper the result is [MainActivity.onCreate].
C8_EntryMethodsByMethodName ==
    queryResult.op = "getAvailableEntryMethods" =>
        /\ queryResult.value = SelectSeq(ObjectKeys(funcMap), NameIsEntry)
        /\ ObjectKeys(funcMap) = <<Key_MainActivity_onCreate, Key_Utils_helper>>
               => queryResult.value = <<Key_MainActivity_onCreate>>

\* What the code returns: the keys that contain a pattern anywhere, in map order.
EntryMethodsByWholeKey ==
    queryResult.op = "getAvailableEntryMethods" =>
        /\ queryResult.value = SelectSeq(ObjectKeys(funcMap), HasEntryPattern)
        /\ ObjectKeys(funcMap) = <<Key_MainActivity_onCreate, Key_Utils_helper>>
               => queryResult.value = <<Key_MainActivity_onCreate>>

\* the query has answered on the map of MainActivity.onCreate and Utils.helper
EntryMethodsExampleReached ==
    /\ queryResult.op = "getAvailableEntryMethods"
    /\ ObjectKeys(funcMap) = <<Key_MainActivity_onCreate, Key_Utils_helper>>

----------------------------------------------------------------------------
(* The map buildFuncMap returns *)

\* the methods of all classes, class by class, each class's methods in order
RECURSIVE FlatMethods(_)
FlatMethods(cs) ==
    IF cs = <<>> THEN <<>> ELSE Head(cs).methods \o FlatMethods(Tail(cs))

DistinctFullNames(ms) ==
    \A a \in 1..Len(ms) : \A b \in 1..Len(ms) : a # b => ms[a].fullName # ms[b].fullName

Built == buildPos = Done

\* C9: when all fully-qualified names of the input classes are distinct, the built
\* map has exactly one key per method, in class-then-method order, each mapped to
\* that method's statements, and getAllMethods returns those keys in that order:
\* as many as there are methods.
C9_LosslessForDistinctNames ==
    LET ms == FlatMethods(classes)
    IN  (Built /\ DistinctFullNames(ms)) =>
            /\ Len(funcMap) = Len(ms)
            /\ \A a \in 1..Len(ms) :
                   /\ funcMap[a].key = ms[a].fullName
                   /\ funcMap[a].stmts = ms[a].statements
            /\ queryResult.op = "getAllMethods" =>
                   /\ Len(queryResult.value) = Len(ms)
                   /\ \A a \in 1..Len(ms) : queryResult.value[a] = ms[a].fullName

\* getAllMethods has answered on a map built from two classes of two methods each,
\* all four names distinct, with a method name shared by the two classes
C9_Witness ==
    /\ Built
    /\ Len(classes) = 2
    /\ Len(classes[1].methods) = 2 /\ Len(classes[2].methods) = 2
    /\ DistinctFullNames(FlatMethods(classes))
    /\ classes[1].methods[2].name = classes[2].methods[1].name
    /\ queryResult.op = "getAllMethods"

\* the last method of ms that has the given fully-qualified name
LastWithName(ms, fullName) ==
    ms[CHOOSE a \in 1..Len(ms) :
           /\ ms[a].fullName = fullName
           /\ \A b \in (a + 1)..Len(ms) : ms[b].fullName # fullName]

\* C10: the built map holds every fully-qualified name of the input exactly once,
\* mapped to the statements of the last method of that name in class-then-method
\* order, whether the name occurs once or several times.
C10_LastWriteWins ==
    LET ms == FlatMethods(classes)
    IN  Built =>
            /\ {funcMap[a].key : a \in 1..Len(funcMap)} = {ms[a].fullName : a \in 1..Len(ms)}
            /\ \A a \in 1..Len(funcMap) : \A b \in 1..Len(funcMap) :
                   funcMap[a].key = funcMap[b].key => a = b
            /\ \A a \in 1..Len(funcMap) :
                   funcMap[a].stmts = LastWithName(ms, funcMap[a].key).statements

\* a map built from methods of which two share a name and differ in statements,
\* beside a method of another name
C10_Witness ==
    LET ms == FlatMethods(classes)
    IN  /\ Built
        /\ \E a \in 1..Len(ms) : \E b \in 1..Len(ms) :
               /\ a < b
               /\ ms[a].fullName = ms[b].fullName
               /\ ms[a].statements # ms[b].statements
        /\ Len(funcMap) >= 2
        /\ Len(ms) > Len(funcMap)

----------------------------------------------------------------------------
(* Size of a returned graph *)

\* the sum of a sequence of numbers
RECURSIVE Total(_)
Total(ns) == IF ns = <<>> THEN 0 ELSE Head(ns) + Total(Tail(ns))

\* the statements of a list, nested statements included
RECURSIVE StatementCount(_)
StatementCount(stmts) ==
    IF stmts = <<>> THEN 0
    ELSE 1 + StatementCount(Head(stmts).trueBranch)
           + StatementCount(Head(stmts).falseBranch)
           + StatementCount(Head(stmts).body)
           + StatementCount(Tail(stmts))

\* the callee names of the Call statements of a list, nested statements included
RECURSIVE CalledNames(_)
CalledNames(stmts) ==
    IF stmts = <<>> THEN {}
    ELSE (IF Head(stmts).type = "method_call" THEN {Head(stmts).name} ELSE {})
         \cup CalledNames(Head(stmts).trueBranch)
         \cup CalledNames(Head(stmts).falseBranch)
         \cup CalledNames(Head(stmts).body)
         \cup CalledNames(Tail(stmts))

\* the statements the map holds for a name; none for a name that is no key
StatementsOf(fm, k) == IF HasOwn(fm, k) THEN FuncMapGet(fm, k).stmts ELSE <<>>

\* the keys of the map that the calls of method k resolve to
ResolvedCallees(fm, k) ==
    {key \in {resolveFullMethodName(fm, n) : n \in CalledNames(StatementsOf(fm, k))} :
        HasOwn(fm, key)}

RECURSIVE ReachableFrom(_, _)
ReachableFrom(fm, names) ==
    LET more == names \cup UNION {ResolvedCallees(fm, k) : k \in names}
    IN  IF more = names THEN names ELSE ReachableFrom(fm, more)

\* the entry and the methods of the map reachable from it through resolved calls
ReachableMethods(fm, entryMethod) == ReachableFrom(fm, {entryMethod})

\* the statements the reachable methods contain, counting nested statements
ReachableStatements(fm, entryMethod) ==
    Total([k \in 1..Len(fm) |->
              IF fm[k].key \in ReachableMethods(fm, entryMethod)
              THEN StatementCount(fm[k].stmts) ELSE 0])

\* the most nodes the statements of a list add: one per Call (leaf, reference or
\* the callee's Method node), Loop and Exit per Loop, Decision per Branch and a
\* Merge when one of its bodies is not empty
RECURSIVE NodeWeight(_)
NodeWeight(stmts) ==
    IF stmts = <<>> THEN 0
    ELSE LET s == Head(stmts)
         IN  (CASE s.type = "method_call" -> 1
                [] s.type = "loop_statement" -> 2 + NodeWeight(s.body)
                [] s.type = "if_statement" ->
                       1 + (IF s.trueBranch # <<>> \/ s.falseBranch # <<>> THEN 1 ELSE 0)
                         + NodeWeight(s.trueBranch) + NodeWeight(s.falseBranch)
                [] OTHER -> 0)
             + NodeWeight(Tail(stmts))

\* the most links the statements of a list add: one per Call, three per Loop
\* (into the loop, back link, exit), five per Branch (into the decision, and per
\* body the if link and the link to the merge)
RECURSIVE LinkWeight(_)
LinkWeight(stmts) ==
    IF stmts = <<>> THEN 0
    ELSE LET s == Head(stmts)
         IN  (CASE s.type = "method_call" -> 1
                [] s.type = "loop_statement" -> 3 + LinkWeight(s.body)
                [] s.type = "if_statement" ->
                       5 + LinkWeight(s.trueBranch) + LinkWeight(s.falseBranch)
                [] OTHER -> 0)
             + LinkWeight(Tail(stmts))

ReachableNodeWeight(fm, entryMethod) ==
    Total([k \in 1..Len(fm) |->
              IF fm[k].key \in ReachableMethods(fm, entryMethod)
              THEN NodeWeight(fm[k].stmts) ELSE 0])

ReachableLinkWeight(fm, entryMethod) ==
    Total([k \in 1..Len(fm) |->
              IF fm[k].key \in ReachableMethods(fm, entryMethod)
              THEN LinkWeight(fm[k].stmts) ELSE 0])

\* C11 as stated: in every returned graph the number of nodes and the number of
\* links are each at most (distinct methods reachable from the entry) +
\* (statements those methods contain, counting nested statements).
C11_CountsWithinMethodsPlusStatements ==
    \A i \in Graphs :
        LET bound == Cardinality(ReachableMethods(funcMap, outcomes[i].entryMethod))
                     + ReachableStatements(funcMap, outcomes[i].entryMethod)
        IN  /\ Len(GraphNodes(i)) <= bound
            /\ Len(GraphLinks(i)) <= bound

\* C11 (amended): in every returned graph the number of nodes is at most
\* 2 (Start, End) + (distinct methods reachable from the entry, the entry
\* included) + (statements those methods contain, counting nested statements, a
\* Loop and a Branch with a non-empty body counted twice), and the number of links
\* is at most (methods reachable) + (those statements, a Loop counted three times
\* and a Branch five times).
C11_CountsWithinWeightedBound ==
    \A i \in Graphs :
        LET e == outcomes[i].entryMethod
            methods == Cardinality(ReachableMethods(funcMap, e))
        IN  /\ Len(GraphNodes(i)) <= 2 + methods + ReachableNodeWeight(funcMap, e)
            /\ Len(GraphLinks(i)) <= methods + ReachableLinkWeight(funcMap, e)

\* a returned graph over two methods that call each other, with a Loop, whose
\* node count exceeds methods + statements
C11_Witness ==
    \E i \in Graphs :
        LET e == outcomes[i].entryMethod
        IN  /\ Cardinality(ReachableMethods(funcMap, e)) = 2
            /\ e \in ResolvedCallees(funcMap, Key_B_g)
            /\ \E j \in 1..Len(GraphNodes(i)) : GraphNodes(i)[j].type = "loop"
            /\ Len(GraphNodes(i)) >
                   Cardinality(ReachableMethods(funcMap, e)) + ReachableStatements(funcMap, e)

----------------------------------------------------------------------------
(* Returned graphs and later calls *)

\* C12: a graph that traceFromEntryMethod has returned is not changed by anything
\* that happens afterwards, later traceFromEntryMethod calls on the same instance
\* included: its node list, its link list and its entryMethod stay as they were
\* when it was returned.
C12_ReturnedGraphsFrozen ==
    [][\A i \in 1..Len(outcomes) :
           outcomes[i].kind = "graph" =>
               /\ Len(outcomes') >= i
               /\ outcomes'[i] = outcomes[i]
               /\ heap'[outcomes[i].nodes] = heap[outcomes[i].nodes]
               /\ heap'[outcomes[i].links] = heap[outcomes[i].links]]_vars

\* one instance has returned a graph and then, for another entry, a different graph
C12_Witness ==
    \E i \in Graphs : \E j \in Graphs :
        /\ i < j
        /\ outcomes[i].tracer = outcomes[j].tracer
        /\ outcomes[i].entryMethod # outcomes[j].entryMethod
        /\ GraphNodes(i) # GraphNodes(j)
        /\ Len(GraphLinks(i)) > 1

----------------------------------------------------------------------------
(* Traces and queries on one function map *)

Key_Utils_main == Qualified(Str_Utils, Str_main)

\* maps whose keys include entry methods, other methods and calls of both kinds
UseMaps ==
    {MutualMap,
     <<Entry(Key_MainActivity_onCreate, <<Call(Str_helper), Call(Str_x)>>),
       Entry(Key_Utils_helper, <<Loop(Str_for, <<Call(Str_onCreate)>>)>>)>>,
     <<Entry(Key_Utils_main, <<Branch(<<Call(Str_x)>>, <<>>), Other>>)>>,
     <<Entry(Key_Domain_helper, <<Call(Str_toString)>>)>>}

InitUse ==
    /\ classes = <<>>
    /\ buildPos = Done
    /\ funcMap \in UseMaps
    /\ InitTracers
    /\ InitServer

NextUse ==
    \/ \E t \in TracerIds : Construct(t)
    \/ \E t \in TracerIds : \E e \in EntryNames(funcMap) : TraceFromEntryMethod(t, e)
    \/ Step
    \/ \E t \in TracerIds : GetAllMethods(t)
    \/ \E t \in TracerIds : GetAvailableEntryMethods(t)

\* traces and queries in any order on a map that is already built
SpecUse == InitUse /\ [][NextUse]_vars

\* C13: no step of traceFromEntryMethod, and neither getAvailableEntryMethods nor
\* getAllMethods, changes the function map: after every step the map has the
\* same keys, in the same order, with the same statement lists.
C13_FuncMapReadOnly == [][funcMap' = funcMap]_vars

\* both queries have answered after traces of an absent entry name and of a key
\* that calls an absent name, and the map has its keys still
C13_Witness ==
    /\ queryResult.op # "none"
    /\ Len(outcomes) = MaxTraces
    /\ \E i \in Graphs : ~HasOwn(funcMap, outcomes[i].entryMethod)
    /\ \E i \in Graphs : \E j \in 1..Len(GraphNodes(i)) : GraphNodes(i)[j].name = Str_x
    /\ Len(funcMap) >= 1

----------------------------------------------------------------------------
(* Branch statements *)

\* the next step is the end of processIfStatement: both bodies are folded
IfEndReached ==
    /\ Running
    /\ Top.fn = "processIfStatement" /\ Top.phase = "false" /\ Top.rest = <<>>

\* the same, for a Branch with a non-empty true body and an empty false body
IfOnlyTrueReached ==
    /\ IfEndReached
    /\ Top.st.trueBranch # <<>>
    /\ Top.st.falseBranch = <<>>

\* the id the caller of the running processIfStatement / processLoopStatement
\* passed as parentNodeId
ParentOfTop == stack[Len(stack) - 1].cur

\* the links the step adds to the running tracer's link list
AddedLinks == SubSeq(heap'[links[active]], Len(CurLinks) + 1, Len(heap'[links[active]]))

\* the nodes the step adds to the running tracer's node list
AddedNodes == SubSeq(heap'[nodes[active]], Len(CurNodes) + 1, Len(heap'[nodes[active]]))

\* the Decision node exists and the parent is linked to it by a sequence link
DecisionEmitted ==
    /\ \E j \in 1..Len(CurNodes) :
           /\ CurNodes[j].id = Top.own
           /\ CurNodes[j].type = "decision"
           /\ CurNodes[j].name = Str_Decision
    /\ \E k \in 1..Len(CurLinks) : CurLinks[k] = FlowLink(ParentOfTop, Top.own, "sequence")

\* the step adds one if_true link, decision -> target, and the list then holds no
\* if_false link from the decision
OnlyIfTrueLinkTo(target) ==
    /\ \E k \in 1..Len(AddedLinks) : AddedLinks[k] = FlowLink(Top.own, target, "if_true")
    /\ Cardinality({k \in 1..Len(AddedLinks) : AddedLinks[k].type = "if_true"}) = 1
    /\ \A k \in 1..Len(heap'[links[active]]) :
           ~(/\ heap'[links[active]][k].source = Top.own
             /\ heap'[links[active]][k].type = "if_false")

\* the id of the node created right after the node with the given id
NextCreated(id) == NodeIdOf(id[2] + 1)

\* the id the Merge node of the running processIfStatement gets
MergeIdOfTop == NodeIdOf(nodeIdCounter[active])

\* C18 as stated: for a Branch with a non-empty true body and an empty false body
\* the tracer emits a Decision node, a sequence link parent -> decision, an
\* if_true link from the decision to the first node the true body produced (to
\* the Merge node if folding the true body returned the decision id), and no
\* if_false link, whatever the length of the true body.
C18_IfTrueToFirstNode ==
    [][IfOnlyTrueReached =>
          /\ DecisionEmitted
          /\ OnlyIfTrueLinkTo(IF Top.trueEnd = Top.own
                              THEN MergeIdOfTop
                              ELSE NextCreated(Top.own))]_vars

\* What the code does when processIfStatement gets to its end: the if_true link
\* goes from the decision to the node at which folding the true body ended (to
\* the Merge node if folding returned the decision id).  That node was created
\* after the decision and before the merge; it is the first node the true body
\* produced exactly when the body produced one node.
IfTrueToBodyEnd ==
    [][IfOnlyTrueReached =>
          /\ DecisionEmitted
          /\ OnlyIfTrueLinkTo(IF Top.trueEnd = Top.own THEN MergeIdOfTop ELSE Top.trueEnd)
          /\ Top.trueEnd # Top.own =>
                 /\ Top.own[2] < Top.trueEnd[2]
                 /\ Top.trueEnd[2] < MergeIdOfTop[2]
                 /\ (Top.trueEnd = NextCreated(Top.own))
                        <=> (MergeIdOfTop[2] = Top.own[2] + 2)]_vars

\* a returned graph holds a decision with an if_true link to a node that is
\* neither the first node after the decision nor a Merge node, and with no
\* if_false link
IfTrueToLaterNodeReached ==
    \E i \in Graphs : \E k \in 1..Len(GraphLinks(i)) :
        LET l == GraphLinks(i)[k]
        IN  /\ l.type = "if_true"
            /\ l.target[2] > l.source[2] + 1
            /\ \A j \in 1..Len(GraphNodes(i)) :
                   GraphNodes(i)[j].id = l.target => GraphNodes(i)[j].name # Str_Merge
            /\ \A m \in 1..Len(GraphLinks(i)) :
                   GraphLinks(i)[m].source = l.source => GraphLinks(i)[m].type # "if_false"

\* the step adds one node, the Merge node, hands its id to the caller, links the
\* end of every body that got past the decision to it, and it has an incoming link
MergeStep ==
    /\ Len(AddedNodes) = 1
    /\ AddedNodes[1] = FlowNode(MergeIdOfTop, "method", Str_Merge, Undefined, Undefined)
    /\ \A j \in 1..Len(CurNodes) : CurNodes[j].id # MergeIdOfTop
    /\ Len(stack') = Len(stack) - 1
    /\ stack'[Len(stack')].cur = MergeIdOfTop
    /\ (Top.st.trueBranch # <<>> /\ Top.trueEnd # Top.own) =>
           \E k \in 1..Len(AddedLinks) :
               AddedLinks[k] = FlowLink(Top.trueEnd, MergeIdOfTop, "sequence")
    /\ (Top.st.falseBranch # <<>> /\ Top.cur # Top.own) =>
           \E k \in 1..Len(AddedLinks) :
               AddedLinks[k] = FlowLink(Top.cur, MergeIdOfTop, "sequence")
    /\ Cardinality({k \in 1..Len(AddedLinks) :
                       AddedLinks[k].type = "sequence" /\ AddedLinks[k].target = MergeIdOfTop})
           = Cardinality({b \in {"true", "false"} :
                             \/ b = "true" /\ Top.st.trueBranch # <<>> /\ Top.trueEnd # Top.own
                             \/ b = "false" /\ Top.st.falseBranch # <<>> /\ Top.cur # Top.own})
    /\ \E k \in 1..Len(AddedLinks) : AddedLinks[k].target = MergeIdOfTop

\* the step adds no node and no link and hands the Decision id to the caller
NoMergeStep ==
    /\ AddedNodes = <<>>
    /\ AddedLinks = <<>>
    /\ Len(stack') = Len(stack) - 1
    /\ stack'[Len(stack')].cur = Top.own

\* a processIfStatement call that has begun is not abandoned: until its own last
\* step its activation stays where it is
IfCallsGoOn ==
    \A d \in 1..Len(stack) :
        stack[d].fn = "processIfStatement" =>
            \/ d = Len(stack) /\ IfEndReached
            \/ /\ Len(stack') >= d
               /\ stack'[d].fn = "processIfStatement"
               /\ stack'[d].own = stack[d].own

\* What the code does when processIfStatement gets to its end: it adds a Merge
\* node and returns its id exactly when one of the two bodies is not empty, with
\* a sequence link from the end of each body that got past the decision.
MergeAtEndOfIf ==
    [][IfEndReached =>
          IF Top.st.trueBranch # <<>> \/ Top.st.falseBranch # <<>>
          THEN MergeStep
          ELSE NoMergeStep]_vars

\* C19: processIfStatement creates a Merge node (a method node named 'Merge') and
\* returns its id exactly when one of the two bodies is not empty; when both are
\* empty it creates no node and returns the Decision id.  The end of each
\* non-empty body whose folding got past the decision is linked to the Merge node
\* by a sequence link, and the Merge node has at least one incoming link.  Every
\* processIfStatement call gets that far.
C19_MergeWhenBodyNonEmpty ==
    [][/\ IfCallsGoOn
       /\ IfEndReached =>
              IF Top.st.trueBranch # <<>> \/ Top.st.falseBranch # <<>>
              THEN MergeStep
              ELSE NoMergeStep]_vars

\* a returned graph holds a Merge node joined by two sequence links and a
\* decision of two empty bodies, which has no if link
MergeJoinedTwiceReached ==
    \E i \in Graphs :
        /\ \E j \in 1..Len(GraphNodes(i)) :
               /\ GraphNodes(i)[j].name = Str_Merge
               /\ Cardinality({k \in 1..Len(GraphLinks(i)) :
                                  /\ GraphLinks(i)[k].target = GraphNodes(i)[j].id
                                  /\ GraphLinks(i)[k].type = "sequence"}) = 2
        /\ \E j \in 1..Len(GraphNodes(i)) :
               /\ GraphNodes(i)[j].type = "decision"
               /\ \A k \in 1..Len(GraphLinks(i)) :
                      GraphLinks(i)[k].source = GraphNodes(i)[j].id
                          => GraphLinks(i)[k].type \notin {"if_true", "if_false"}

----------------------------------------------------------------------------
(* Loop statements *)

\* the next step is the end of processLoopStatement: the body is folded
LoopEndReached ==
    /\ Running
    /\ Top.fn = "processLoopStatement" /\ Top.rest = <<>>

\* a Loop whose body is exactly one Call statement
OneCallBody(statement) ==
    /\ Len(statement.body) = 1
    /\ statement.body[1].type = "method_call"

\* a processLoopStatement call over such a body is not abandoned
OneCallLoopsGoOn ==
    \A d \in 1..Len(stack) :
        (stack[d].fn = "processLoopStatement" /\ OneCallBody(stack[d].st)) =>
            \/ d = Len(stack) /\ LoopEndReached
            \/ /\ Len(stack') >= d
               /\ stack'[d].fn = "processLoopStatement"
               /\ stack'[d].own = stack[d].own

\* the Loop node exists, the parent is linked to it by a sequence link, and the
\* node created next is a method node: the one the Call produced
LoopAndCallEmitted ==
    /\ \E j \in 1..Len(CurNodes) : CurNodes[j].id = Top.own /\ CurNodes[j].type = "loop"
    /\ \E k \in 1..Len(CurLinks) : CurLinks[k] = FlowLink(ParentOfTop, Top.own, "sequence")
    /\ \E j \in 1..Len(CurNodes) :
           CurNodes[j].id = NextCreated(Top.own) /\ CurNodes[j].type = "method"

\* the step adds the back link from the given node and the Exit node with its link
BackLinkAndExit(from) ==
    LET exitId == NodeIdOf(nodeIdCounter[active])
    IN  /\ AddedNodes = <<FlowNode(exitId, "method", Str_LoopExit, Undefined, Undefined)>>
        /\ AddedLinks = <<FlowLink(from, Top.own, "loop_exit"),
                          FlowLink(Top.own, exitId, "loop_exit")>>
        /\ Len(stack') = Len(stack) - 1
        /\ stack'[Len(stack')].cur = exitId

\* C20: for a Loop whose body is exactly one Call the tracer emits a Loop node, a
\* sequence link parent -> loop, a Method node for the call, a loop_exit back link
\* from that Method node to the Loop node, and an Exit node with a loop_exit link
\* from the Loop node, whether the call is unresolved, resolves to a visited
\* method or resolves to a method not yet visited that has statements.
C20_LoopOfOneCall ==
    [][/\ OneCallLoopsGoOn
       /\ (LoopEndReached /\ OneCallBody(Top.st)) =>
              /\ LoopAndCallEmitted
              /\ BackLinkAndExit(NextCreated(Top.own))]_vars

\* What the code does when processLoopStatement gets to its end on such a body:
\* the back link starts at the node the Call's processing returned, which is the
\* Call's Method node exactly when the Call produced one node.
BackLinkFromBodyEnd ==
    [][(LoopEndReached /\ OneCallBody(Top.st)) =>
          /\ LoopAndCallEmitted
          /\ BackLinkAndExit(Top.cur)
          /\ (Top.cur = NextCreated(Top.own))
                 <=> (nodeIdCounter[active] = Top.own[2] + 2)]_vars

\* a returned graph holds a back link to a Loop node from a node that is not the
\* one created right after the Loop node
BackLinkFromLaterNodeReached ==
    \E i \in Graphs : \E k \in 1..Len(GraphLinks(i)) :
        LET l == GraphLinks(i)[k]
        IN  /\ l.type = "loop_exit"
            /\ l.target[2] < l.source[2] - 1

----------------------------------------------------------------------------
(* Text of a source line (ast-parser.ts) *)

Str_class == <<"c", "l", "a", "s", "s">>
Str_fun == <<"f", "u", "n">>
Str_do == <<"d", "o">>

LowerLetters ==
    <<"a", "b", "c", "d", "e", "f", "g", "h", "i", "j", "k", "l", "m", "n", "o", "p", "q", "r", "s", "t", "u", "v", "w", "x", "y", "z">>

UpperLetters ==
    <<"A", "B", "C", "D", "E", "F", "G", "H", "I", "J", "K", "L", "M", "N", "O", "P", "Q", "R", "S", "T", "U", "V", "W", "X", "Y", "Z">>

Digits == <<"0", "1", "2", "3", "4", "5", "6", "7", "8", "9">>

\* the characters \w matches
WordChars ==
    {LowerLetters[k] : k \in 1..Len(LowerLetters)}
    \cup {UpperLetters[k] : k \in 1..Len(UpperLetters)}
    \cup {Digits[k] : k \in 1..Len(Digits)}
    \cup {"_"}

LowerChar(c) ==
    IF \E k \in 1..Len(UpperLetters) : UpperLetters[k] = c
    THEN LowerLetters[CHOOSE k \in 1..Len(UpperLetters) : UpperLetters[k] = c]
    ELSE c

\* String.prototype.toLowerCase
ToLowerCase(s) == [i \in 1..Len(s) |-> LowerChar(s[i])]

\* String.prototype.trim (the lines hold no white space but the blank)
Trim(s) ==
    IF \A i \in 1..Len(s) : s[i] = " "
    THEN <<>>
    ELSE LET a == CHOOSE i \in 1..Len(s) : s[i] # " " /\ \A j \in 1..(i - 1) : s[j] = " "
             b == CHOOSE i \in 1..Len(s) : s[i] # " " /\ \A j \in (i + 1)..Len(s) : s[j] = " "
         IN  SubSeq(s, a, b)

\* String.prototype.startsWith
StartsWith(s, prefix) == Len(s) >= Len(prefix) /\ SubSeq(s, 1, Len(prefix)) = prefix

\* (line.match(/{/g) || []).length, for the character c
CountChar(s, c) == Cardinality({i \in 1..Len(s) : s[i] = c})

\* the text p stands in s at position i
OccursAt(s, p, i) == i + Len(p) - 1 <= Len(s) /\ SubSeq(s, i, i + Len(p) - 1) = p

\* \w+ from position i, greedy: the last position of the run of word characters
WordEnd(s, i) ==
    CHOOSE j \in i..Len(s) :
        /\ \A k \in i..j : s[k] \in WordChars
        /\ j = Len(s) \/ s[j + 1] \notin WordChars

\* \s* from position i, greedy: the first position that holds no blank
AfterSpaces(s, i) ==
    CHOOSE j \in i..(Len(s) + 1) :
        /\ \A k \in i..(j - 1) : s[k] = " "
        /\ j = Len(s) + 1 \/ s[j] # " "

Least(positions) == CHOOSE i \in positions : \A j \in positions : i <= j

\* the result of a match that failed (a group (\w+) never captures the empty text)
NoMatch == <<>>

\* line.match(/(\w+)\s*\(/)[1]
MethodCallMatch(s) ==
    LET starts == {i \in 1..Len(s) :
                      /\ s[i] \in WordChars
                      /\ LET j == AfterSpaces(s, WordEnd(s, i) + 1)
                         IN  j <= Len(s) /\ s[j] = "("}
    IN  IF starts = {}
        THEN NoMatch
        ELSE SubSeq(s, Least(starts), WordEnd(s, Least(starts)))

\* the alternatives of /(for|while|do)\s*\(/ in their order
LoopKeywords == <<Str_for, Str_while, Str_do>>

LoopAt(s, i, keyword) ==
    /\ OccursAt(s, keyword, i)
    /\ LET j == AfterSpaces(s, i + Len(keyword))
       IN  j <= Len(s) /\ s[j] = "("

\* line.match(/(for|while|do)\s*\(/)[1]: the pattern is not anchored, so the
\* keyword may be the end of a longer word
LoopMatch(s) ==
    LET starts == {i \in 1..Len(s) : \E k \in 1..Len(LoopKeywords) : LoopAt(s, i, LoopKeywords[k])}
        i == Least(starts)
    IN  IF starts = {}
        THEN NoMatch
        ELSE LoopKeywords[CHOOSE k \in 1..Len(LoopKeywords) :
                              /\ LoopAt(s, i, LoopKeywords[k])
                              /\ \A m \in 1..(k - 1) : ~LoopAt(s, i, LoopKeywords[m])]

\* line.match(classPattern)[1]; the optional modifiers before class and the
\* optional extends / implements groups do not change the first group
ClassMatch(s, language) ==
    LET starts == {i \in 1..Len(s) :
                      /\ OccursAt(s, Str_class, i)
                      /\ LET j == AfterSpaces(s, i + Len(Str_class))
                         IN  j > i + Len(Str_class) /\ j <= Len(s) /\ s[j] \in WordChars}
        j == AfterSpaces(s, Least(starts) + Len(Str_class))
    IN  IF starts = {} THEN NoMatch ELSE SubSeq(s, j, WordEnd(s, j))

\* (\w+)\s*\(([^)]*)\) matches at position c
NameAndParameters(s, c) ==
    /\ c <= Len(s)
    /\ s[c] \in WordChars
    /\ LET e == AfterSpaces(s, WordEnd(s, c) + 1)
       IN  e <= Len(s) /\ s[e] = "(" /\ \E k \in (e + 1)..Len(s) : s[k] = ")"

\* parseMethodDeclaration(line, language).name, or NoMatch for null.  The java
\* pattern is (\w+)\s+(\w+)\s*\(([^)]*)\) behind optional modifiers (the lines
\* hold no '<'), the kotlin pattern fun\s+(\w+)\s*\(([^)]*)\)
parseMethodDeclaration(s, language) ==
    LET javaStarts == {a \in 1..Len(s) :
                          /\ s[a] \in WordChars
                          /\ AfterSpaces(s, WordEnd(s, a) + 1) > WordEnd(s, a) + 1
                          /\ NameAndParameters(s, AfterSpaces(s, WordEnd(s, a) + 1))}
        kotlinStarts == {a \in 1..Len(s) :
                            /\ OccursAt(s, Str_fun, a)
                            /\ AfterSpaces(s, a + Len(Str_fun)) > a + Len(Str_fun)
                            /\ NameAndParameters(s, AfterSpaces(s, a + Len(Str_fun)))}
        javaName == AfterSpaces(s, WordEnd(s, Least(javaStarts)) + 1)
        kotlinName == AfterSpaces(s, Least(kotlinStarts) + Len(Str_fun))
    IN  IF language = "java"
        THEN IF javaStarts = {} THEN NoMatch ELSE SubSeq(s, javaName, WordEnd(s, javaName))
        ELSE IF kotlinStarts = {} THEN NoMatch ELSE SubSeq(s, kotlinName, WordEnd(s, kotlinName))

frameworkMethods ==
    <<<<"L", "o", "g">>,
      <<"T", "o", "a", "s", "t">>,
      <<"f", "i", "n", "d", "V", "i", "e", "w", "B", "y", "I", "d">>,
      <<"s", "e", "t", "C", "o", "n", "t", "e", "n", "t", "V", "i", "e", "w">>,
      <<"g", "e", "t", "S", "y", "s", "t", "e", "m", "S", "e", "r", "v", "i", "c", "e">>,
      <<"s", "t", "a", "r", "t", "A", "c", "t", "i", "v", "i", "t", "y">>,
      <<"f", "i", "n", "i", "s", "h">>,
      <<"r", "u", "n", "O", "n", "U", "i", "T", "h", "r", "e", "a", "d">>,
      <<"g", "e", "t", "S", "t", "r", "i", "n", "g">>,
      <<"g", "e", "t", "R", "e", "s", "o", "u", "r", "c", "e", "s">>>>

isAndroidFrameworkCall(methodName) ==
    \E k \in 1..Len(frameworkMethods) :
        \/ Includes(methodName, frameworkMethods[k])
        \/ StartsWith(methodName, ToLowerCase(frameworkMethods[k]))

\* a statement as the parser makes it: with the number of its line
WithLine(statement, lineNumber) ==
    [type |-> statement.type, name |-> statement.name, loopType |-> statement.loopType,
     trueBranch |-> statement.trueBranch, falseBranch |-> statement.falseBranch,
     body |-> statement.body, lineNumber |-> lineNumber]

\* a scan that puts the call found on the line into the true branch of the Branch
parseStatementsWithBody(line, lineNumber) ==
    (IF MethodCallMatch(line) # NoMatch /\ ~isAndroidFrameworkCall(MethodCallMatch(line))
     THEN <<WithLine(Call(MethodCallMatch(line)), lineNumber)>>
     ELSE <<>>)
    \o (IF Includes(line, <<"i", "f">>) /\ Includes(line, <<"(">>)
        THEN <<WithLine(Branch(<<Call(Str_x)>>, <<>>), lineNumber)>>
        ELSE <<>>)
    \o (IF LoopMatch(line) # NoMatch
        THEN <<WithLine(Loop(LoopMatch(line), <<>>), lineNumber)>>
        ELSE <<>>)

\* parseStatements(line, lineNumber)
parseStatements(line, lineNumber) ==
    (IF MethodCallMatch(line) # NoMatch /\ ~isAndroidFrameworkCall(MethodCallMatch(line))
     THEN <<WithLine(Call(MethodCallMatch(line)), lineNumber)>>
     ELSE <<>>)
    \o (IF Includes(line, <<"i", "f">>) /\ Includes(line, <<"(">>)
        THEN <<WithLine(Branch(<<>>, <<>>), lineNumber)>>
        ELSE <<>>)
    \o (IF LoopMatch(line) # NoMatch
        THEN <<WithLine(Loop(LoopMatch(line), <<>>), lineNumber)>>
        ELSE <<>>)

----------------------------------------------------------------------------
(* Source texts *)

\* the lines the source texts are made of, by a name for each
\*   classA: class A {
\*   classB: class B {
\*   voidF: void f() {
\*   voidH: void h() { }
\*   field: int x = k();
\*   close: }
\*   undo: undo();
\*   funG: fun g() {
\*   while:   while (x) {
\*   comment: // if (x)
\*   blank: the empty line
\*   callG: g();
\*   toString: toString();
\*   if: if (x) {
Line ==
    [classA |-> <<"c", "l", "a", "s", "s", " ", "A", " ", "{">>,
     classB |-> <<"c", "l", "a", "s", "s", " ", "B", " ", "{">>,
     voidF |-> <<"v", "o", "i", "d", " ", "f", "(", ")", " ", "{">>,
     voidH |-> <<"v", "o", "i", "d", " ", "h", "(", ")", " ", "{", " ", "}">>,
     field |-> <<"i", "n", "t", " ", "x", " ", "=", " ", "k", "(", ")", ";">>,
     close |-> <<"}">>,
     undo |-> <<"u", "n", "d", "o", "(", ")", ";">>,
     funG |-> <<"f", "u", "n", " ", "g", "(", ")", " ", "{">>,
     while |-> <<" ", " ", "w", "h", "i", "l", "e", " ", "(", "x", ")", " ", "{">>,
     comment |-> <<"/", "/", " ", "i", "f", " ", "(", "x", ")">>,
     blank |-> <<>>,
     callG |-> <<"g", "(", ")", ";">>,
     toString |-> <<"t", "o", "S", "t", "r", "i", "n", "g", "(", ")", ";">>,
     if |-> <<"i", "f", " ", "(", "x", ")", " ", "{">>]

\* lines per source text
MaxLines == 5

JavaLines ==
    {Line.classA, Line.classB, Line.voidF, Line.voidH, Line.field, Line.close, Line.undo}

KotlinLines == {Line.classA, Line.funG, Line.while, Line.close, Line.comment, Line.blank}

\* content.split('\n') of the Java sources
JavaContents == UNION {[1..k -> JavaLines] : k \in 0..MaxLines}

\* content.split('\n') of the Kotlin sources
KotlinContents == UNION {[1..k -> KotlinLines] : k \in 0..MaxLines}

\* the lines of the stored files that are in neither set above
StoredLines == {Line.callG, Line.toString, Line.if}

SourceLines == JavaLines \cup KotlinLines \cup StoredLines

\* the Java file of project 1 and its Kotlin file
Text_A_java ==
    <<Line.classA, Line.voidF, Line.callG, Line.if, Line.undo, Line.close, Line.close,
      Line.close>>

Text_B_kt == <<Line.classB, Line.funG, Line.while, Line.close, Line.close, Line.close>>

\* a Java file whose method calls toString
Text_A_toString == <<Line.classA, Line.voidF, Line.toString, Line.close, Line.close>>

StoredTexts == {Text_A_java, Text_B_kt, Text_A_toString}

\* the lines of the longest text parsed
LongestText ==
    CHOOSE n \in 0..(MaxLines + Len(Text_A_java)) :
        /\ n >= MaxLines
        /\ \A text \in StoredTexts : n >= Len(text)
        /\ n = MaxLines \/ \E text \in StoredTexts : n = Len(text)

\* what the patterns of parseFile make of each line of the source texts: the
\* trimmed line, the braces it opens less the braces it closes, the class
\* name and the method name it declares in each language, and its statements
\* for each line number
Scanned ==
    [l \in SourceLines |->
        [line |-> Trim(l),
         braces |-> CountChar(Trim(l), "{") - CountChar(Trim(l), "}"),
         classMatch |-> [language \in {"java", "kotlin"} |-> ClassMatch(Trim(l), language)],
         methodMatch |-> [language \in {"java", "kotlin"} |->
                             parseMethodDeclaration(Trim(l), language)],
         statements |-> [n \in 1..LongestText |-> parseStatements(Trim(l), n)]]]

----------------------------------------------------------------------------
(* parseFile (ast-parser.ts) *)

\* a ParsedClass with no method yet (lines 89-94)
OpenedClass(name) == <<ParsedClass(name, <<>>)>>

\* a ParsedMethod with no statement yet (lines 108-117)
OpenedMethod(className, name, lineNumber) ==
    <<[name |-> name, className |-> className, fullName |-> Qualified(className, name),
       statements |-> <<>>, lineNumber |-> lineNumber]>>

\* currentClass.methods.push(currentMethod) if there is a current method
PushMethod(currentClass, currentMethod) ==
    IF currentMethod = Null
    THEN currentClass
    ELSE <<[currentClass[1] EXCEPT !.methods = Append(@, currentMethod[1])]>>

\* classes.push(currentClass) if there is a current class
PushClass(classList, currentClass) ==
    IF currentClass = Null THEN classList ELSE Append(classList, currentClass[1])

\* lines 84-97, taken when the line declares a class outside a method
ClassDeclared(p, name, lineNumber) ==
    [p EXCEPT !.classes = PushClass(p.classes, p.currentClass),
              !.currentClass = OpenedClass(name),
              !.inClass = TRUE,
              !.opened = Append(@, [kind |-> "class", name |-> name, line |-> lineNumber])]

\* lines 101-120, taken when the line declares a method inside a class
MethodDeclared(p, name, lineNumber) ==
    [p EXCEPT !.currentClass = PushMethod(p.currentClass, p.currentMethod),
              !.currentMethod = OpenedMethod(p.currentClass[1].name, name, lineNumber),
              !.inMethod = TRUE,
              !.opened = Append(@, [kind |-> "method", name |-> name, line |-> lineNumber])]

\* lines 122-126
StatementsPushed(p, statements) ==
    IF p.currentMethod # Null /\ p.inMethod
    THEN [p EXCEPT !.currentMethod =
             <<[p.currentMethod[1] EXCEPT !.statements = @ \o statements]>>]
    ELSE p

\* lines 128-135
MethodLeft(p) ==
    IF p.inMethod /\ p.braceLevel <= (IF p.inClass THEN 1 ELSE 0)
    THEN [p EXCEPT !.currentClass = PushMethod(p.currentClass, p.currentMethod),
                   !.currentMethod = Null,
                   !.inMethod = FALSE]
    ELSE p

\* lines 137-149
ClassLeft(p) ==
    IF p.inClass /\ p.braceLevel <= 0
    THEN [p EXCEPT !.classes = PushClass(p.classes, PushMethod(p.currentClass, p.currentMethod)),
                   !.currentClass = Null,
                   !.currentMethod = Null,
                   !.inClass = FALSE,
                   !.inMethod = FALSE]
    ELSE p

\* one pass of the loop over the lines (lines 75-150), i counted from 0
AfterLine(p) ==
    LET scanned == Scanned[p.lines[p.i + 1]]
        line == scanned.line
        lineNumber == p.i + 1
        read == [p EXCEPT !.i = p.i + 1]
        counted == [read EXCEPT !.braceLevel = @ + scanned.braces]
        classMatch == scanned.classMatch[p.language]
        methodMatch == scanned.methodMatch[p.language]
    IN  IF StartsWith(line, <<"/", "/">>) \/ StartsWith(line, <<"/", "*">>) \/ line = <<>>
        THEN read
        ELSE IF classMatch # NoMatch /\ ~p.inMethod
        THEN ClassDeclared(counted, classMatch, lineNumber)
        ELSE IF p.currentClass = Null
        THEN counted
        ELSE IF methodMatch # NoMatch /\ p.inClass
        THEN MethodDeclared(counted, methodMatch, lineNumber)
        ELSE ClassLeft(MethodLeft(StatementsPushed(counted, scanned.statements[lineNumber])))

\* a return that drops what is still open at the end of the input
AtEndOfInputDropOpen(p) == [p EXCEPT !.phase = "done"]

\* lines 152-160: what is still open at the end of the input is pushed
AtEndOfInput(p) ==
    [p EXCEPT !.classes = PushClass(p.classes, PushMethod(p.currentClass, p.currentMethod)),
              !.currentClass = PushMethod(p.currentClass, p.currentMethod),
              !.phase = "done"]

\* parseFile(content, filename, language) up to its loop; content.split('\n') is lines
ParseFileBegun(lines, language) ==
    [ParserIdle EXCEPT !.phase = "lines", !.lines = lines, !.language = language]

\* for (let i = 0; i < lines.length; i++) { ... }
ParseLine ==
    /\ parser.phase = "lines"
    /\ parser.i < Len(parser.lines)
    /\ parser' = AfterLine(parser)
    /\ UNCHANGED <<classes, buildPos, funcMap, tracers, queryResult, tracerVars, serverVars>>

\* the loop is over: flush and return classes
ParseEnd ==
    /\ parser.phase = "lines"
    /\ parser.i = Len(parser.lines)
    /\ parser' = AtEndOfInput(parser)
    /\ UNCHANGED <<classes, buildPos, funcMap, tracers, queryResult, tracerVars, serverVars>>

\* parseJavaFile(content, filename) on one of the source texts
ParseJavaFile ==
    /\ parser.phase = "idle"
    /\ \E lines \in JavaContents : parser' = ParseFileBegun(lines, "java")
    /\ UNCHANGED <<classes, buildPos, funcMap, tracers, queryResult, tracerVars, serverVars>>

\* parseKotlinFile(content, filename) on one of the source texts
ParseKotlinFile ==
    /\ parser.phase = "idle"
    /\ \E lines \in KotlinContents : parser' = ParseFileBegun(lines, "kotlin")
    /\ UNCHANGED <<classes, buildPos, funcMap, tracers, queryResult, tracerVars, serverVars>>

InitParse ==
    /\ classes = <<>>
    /\ buildPos = Done
    /\ funcMap = <<>>
    /\ InitTracers
    /\ InitServer

NextParse ==
    \/ ParseJavaFile
    \/ ParseKotlinFile
    \/ ParseLine
    \/ ParseEnd

\* one parseFile call on any of the source texts
SpecParse == InitParse /\ [][NextParse]_vars


----------------------------------------------------------------------------
(* Loop kinds *)

\* the kinds the type of LoopStatement.loopType declares (ast-parser.ts:17)
DeclaredLoopTypes == {Str_for, Str_while, Str_do_while}

\* the methods parseFile has made so far: the pushed ones and the open one
ParsedMethods(p) ==
    UNION {{c.methods[k] : k \in 1..Len(c.methods)} :
              c \in {p.classes[k] : k \in 1..Len(p.classes)}
                    \cup {p.currentClass[k] : k \in 1..Len(p.currentClass)}}
    \cup {p.currentMethod[k] : k \in 1..Len(p.currentMethod)}

\* the statements parseFile has recorded so far
ParsedStatements(p) ==
    UNION {{m.statements[k] : k \in 1..Len(m.statements)} : m \in ParsedMethods(p)}

\* C17: every loop statement parseFile records has a loopType among for, while
\* and do_while.
C17_LoopTypeDeclared ==
    \A statement \in ParsedStatements(parser) :
        statement.type = "loop_statement" => statement.loopType \in DeclaredLoopTypes

\* a recorded loop statement has the loopType do
LoopTypeDoReached ==
    \E statement \in ParsedStatements(parser) :
        statement.type = "loop_statement" /\ statement.loopType = Str_do

\* no source text yields the loopType do_while
DoWhileNeverRecorded ==
    \A statement \in ParsedStatements(parser) : statement.loopType # Str_do_while

----------------------------------------------------------------------------
(* Statements and the method bodies of the source text *)

\* the braces opened less the braces closed in the first n characters of a line
BraceBalance(l, n) ==
    Cardinality({k \in 1..n : l[k] = "{"}) - Cardinality({k \in 1..n : l[k] = "}"})

\* per line of the source texts: its balance, and the lowest balance inside it
Braces ==
    [l \in SourceLines |->
        [net |-> BraceBalance(l, Len(l)),
         low |-> CHOOSE b \in {BraceBalance(l, n) : n \in 0..Len(l)} :
                     \A n \in 0..Len(l) : b <= BraceBalance(l, n)]]

\* the brace depth of the text after its first k lines
RECURSIVE DepthAfter(_, _)
DepthAfter(lines, k) ==
    IF k = 0 THEN 0 ELSE DepthAfter(lines, k - 1) + Braces[lines[k]].net

\* the braces of the text are balanced and properly nested
WellFormedBraces(lines) ==
    /\ \A k \in 1..Len(lines) : DepthAfter(lines, k - 1) + Braces[lines[k]].low >= 0
    /\ DepthAfter(lines, Len(lines)) = 0

\* line j lies in the body that opens on line d: the brace opened on line d is
\* not closed before line j
InBodyOpenedAt(lines, d, j) ==
    /\ d <= j
    /\ \A k \in d..(j - 1) : DepthAfter(lines, k) > DepthAfter(lines, d - 1)

\* C15: when the braces of the source text are well-formed, every statement
\* recorded in a method comes from a line inside the body of that method, the
\* body that opens on the method's declaration line.
C15_StatementsInOwnBody ==
    WellFormedBraces(parser.lines) =>
        \A m \in ParsedMethods(parser) : \A k \in 1..Len(m.statements) :
            InBodyOpenedAt(parser.lines, m.lineNumber, m.statements[k].lineNumber)

\* the body of a method ends on its declaration line
OneLineBody(lines, d) == DepthAfter(lines, d) <= DepthAfter(lines, d - 1)

\* the same holds of every well-formed text in which no method body ends on
\* the line that declares the method
StatementsInOwnBodyOfLongerMethods ==
    (/\ WellFormedBraces(parser.lines)
     /\ \A m \in ParsedMethods(parser) : ~OneLineBody(parser.lines, m.lineNumber))
        => \A m \in ParsedMethods(parser) : \A k \in 1..Len(m.statements) :
               InBodyOpenedAt(parser.lines, m.lineNumber, m.statements[k].lineNumber)

\* a well-formed text is parsed to its end and a statement of a method with a
\* body of several lines is recorded
StatementInLongerMethodReached ==
    /\ parser.phase = "done"
    /\ Len(parser.lines) > 0
    /\ WellFormedBraces(parser.lines)
    /\ \E m \in ParsedMethods(parser) :
           /\ ~OneLineBody(parser.lines, m.lineNumber)
           /\ m.statements # <<>>

----------------------------------------------------------------------------
(* Classes and methods opened and returned *)

\* the positions in the log of openings that open a class
ClassOpenings(p) == {a \in 1..Len(p.opened) : p.opened[a].kind = "class"}

\* the position in the log of the k-th class opening
RECURSIVE NthClassOpening(_, _)
NthClassOpening(p, k) ==
    IF k = 1
    THEN Least(ClassOpenings(p))
    ELSE Least({a \in ClassOpenings(p) : a > NthClassOpening(p, k - 1)})

\* the openings of methods that follow the k-th class opening and precede the next one
RECURSIVE MethodsOpenedFrom(_, _)
MethodsOpenedFrom(p, a) ==
    IF a > Len(p.opened) \/ p.opened[a].kind = "class"
    THEN <<>>
    ELSE <<p.opened[a]>> \o MethodsOpenedFrom(p, a + 1)

MethodsOpenedIn(p, k) == MethodsOpenedFrom(p, NthClassOpening(p, k) + 1)

\* the returned class c is the k-th class opened, with the methods opened in
\* it, each once and in the order of their declaration lines
ReturnedAsOpened(p, c, k) ==
    LET methodsOpened == MethodsOpenedIn(p, k)
    IN  /\ c.name = p.opened[NthClassOpening(p, k)].name
        /\ Len(c.methods) = Len(methodsOpened)
        /\ \A a \in 1..Len(methodsOpened) :
               /\ c.methods[a].name = methodsOpened[a].name
               /\ c.methods[a].lineNumber = methodsOpened[a].line
               /\ c.methods[a].className = c.name

StrictlyIncreasingLines(methods) ==
    \A a \in 1..(Len(methods) - 1) : methods[a].lineNumber < methods[a + 1].lineNumber

NonDecreasingLines(statements) ==
    \A a \in 1..(Len(statements) - 1) :
        statements[a].lineNumber <= statements[a + 1].lineNumber

\* C16: when parseFile returns, the returned list holds the classes it opened,
\* each once and in the order of their declaration lines; each class holds the
\* methods opened while it was the open class, each once and in strictly
\* increasing order of declaration line, a class and a method still open at the
\* end of the input included; and the statements of each method are in
\* non-decreasing order of line.
C16_OpenedReturnedOnceInOrder ==
    parser.phase = "done" =>
        /\ Len(parser.classes) = Cardinality(ClassOpenings(parser))
        /\ \A k \in 1..Len(parser.classes) :
               /\ ReturnedAsOpened(parser, parser.classes[k], k)
               /\ StrictlyIncreasingLines(parser.classes[k].methods)
               /\ \A a \in 1..Len(parser.classes[k].methods) :
                      NonDecreasingLines(parser.classes[k].methods[a].statements)
        /\ \A a \in 1..(Len(parser.opened) - 1) :
               parser.opened[a].line < parser.opened[a + 1].line

\* parseFile returned from a text that ended with a class and a method open:
\* two classes are returned, the second with two methods, one of them with two
\* statements
C16_Witness ==
    /\ parser.phase = "done"
    /\ parser.currentMethod # Null
    /\ Len(parser.classes) = 2
    /\ Len(parser.classes[2].methods) = 2
    /\ \E a \in 1..2 : Len(parser.classes[2].methods[a].statements) = 2

----------------------------------------------------------------------------
(* Stored project files (storage.ts) *)

\* file names
FileName == [A_java |-> <<"A", ".", "j", "a", "v", "a">>, B_kt |-> <<"B", ".", "k", "t">>]

\* the characters of the file paths in the order of localeCompare: punctuation,
\* then digits, then letters, a letter's two cases together
CollationOrder ==
    <<".", "_">> \o Digits \o LowerLetters

CollationRank(c) ==
    CHOOSE k \in 1..Len(CollationOrder) : CollationOrder[k] = LowerChar(c)

\* a.localeCompare(b) < 0, for paths that differ in more than the case of a letter
RECURSIVE LocaleBefore(_, _)
LocaleBefore(a, b) ==
    IF b = <<>> THEN FALSE
    ELSE IF a = <<>> THEN TRUE
    ELSE IF CollationRank(Head(a)) # CollationRank(Head(b))
         THEN CollationRank(Head(a)) < CollationRank(Head(b))
         ELSE LocaleBefore(Tail(a), Tail(b))

\* a record of projectFiles; its path is its name, content is the text by lines
ProjectFile(projectId, name, content) ==
    [projectId |-> projectId, path |-> name, name |-> name, content |-> content]

\* Array.prototype.sort((a, b) => a.path.localeCompare(b.path)): stable
RECURSIVE SortByPath(_)
SortByPath(files) ==
    IF files = <<>>
    THEN <<>>
    ELSE LET first == CHOOSE k \in 1..Len(files) :
                          /\ \A j \in 1..Len(files) : ~LocaleBefore(files[j].path, files[k].path)
                          /\ \A j \in 1..(k - 1) : LocaleBefore(files[k].path, files[j].path)
         IN  <<files[first]>>
             \o SortByPath(SubSeq(files, 1, first - 1) \o SubSeq(files, first + 1, Len(files)))

\* storage.getProjectFiles(projectId): the files of the project, sorted by path
getProjectFiles(files, projectId) ==
    LET OfProject(file) == file.projectId = projectId
    IN  SortByPath(SelectSeq(files, OfProject))

----------------------------------------------------------------------------
(* POST /api/projects/:id/call-flow (routes.ts) *)

\* req.params.id of the requests, and another project
ProjectId == "p1"

OtherProjectId == "p2"

\* the contents of storage: projectFiles in insertion order
Stores ==
    {<<ProjectFile(ProjectId, FileName.B_kt, Text_B_kt),
       ProjectFile(OtherProjectId, FileName.A_java, Text_A_toString),
       ProjectFile(ProjectId, FileName.A_java, Text_A_java)>>,
     <<ProjectFile(ProjectId, FileName.A_java, Text_A_toString)>>,
     <<ProjectFile(OtherProjectId, FileName.A_java, Text_A_java)>>}

\* req.body.entryMethod of the requests; the empty string stands for a missing one
RequestedEntries == {<<>>, Key_A_f, Key_B_g}

\* the requests in the order in which they arrive
RequestOrder == <<"r1", "r2", "r3">>

ArrivesBefore(q, r) ==
    \E a \in 1..Len(RequestOrder) : \E b \in (a + 1)..Len(RequestOrder) :
        RequestOrder[a] = q /\ RequestOrder[b] = r

\* the requests that wait at `await storage.getProjectFiles(projectId)`
Waiting(rq) == {q \in RequestIds : rq[q].pc = "await"}

\* an entryMethod shared by the calls of the handler: that of the request that
\* arrived last
EntryOfLastArrival(rq, r) ==
    rq[CHOOSE q \in RequestIds : \A o \in RequestIds : rq[o].arrival <= rq[q].arrival].entryMethod

\* entryMethod as the handler of request r reads it: a const of its own call
EntryOf(rq, r) == rq[r].entryMethod

\* file.name.endsWith('.java') ? 'java' : 'kotlin'
fileExtension(file) == IF EndsWith(file.name, <<".", "j", "a", "v", "a">>) THEN "java" ELSE "kotlin"

\* astParser.parseJavaFile(file.content, file.name) or parseKotlinFile, begun
ParseBegun(file) == ParseFileBegun(file.content, fileExtension(file))

\* res.status(status).json({ message })
ErrorResponse(status) == [status |-> status]

\* res.json({ callFlowGraph, availableEntryMethods, allMethods, totalMethods,
\* totalClasses }): the arrays are written out, not shared
GraphResponse(outcome, hp, fm, allClasses) ==
    [status |-> 200,
     callFlowGraph |-> [nodes |-> hp[outcome.nodes], links |-> hp[outcome.links],
                        entryMethod |-> outcome.entryMethod],
     availableEntryMethods |-> getAvailableEntryMethods(fm),
     allMethods |-> getAllMethods(fm),
     totalMethods |-> Len(getAllMethods(fm)),
     totalClasses |-> Len(allClasses)]

\* the handler up to its await: lines 285-294.  The requests arrive in
\* RequestOrder; a request that arrives while others wait overlaps with them.
Receive(r, entryMethod) ==
    /\ running = NoRequest
    /\ requests[r].pc = "idle"
    /\ \A q \in RequestIds : ArrivesBefore(q, r) => requests[q].pc # "idle"
    /\ LET arrival == Cardinality({q \in RequestIds : requests[q].pc # "idle"}) + 1
           arrived == [requests[r] EXCEPT !.entryMethod = entryMethod, !.arrival = arrival]
       IN  IF entryMethod = <<>>
           THEN requests' = [requests EXCEPT ![r] =
                    [arrived EXCEPT !.pc = "done", !.response = ErrorResponse(400)]]
           ELSE requests' =
                    [q \in RequestIds |->
                        IF q = r
                        THEN [arrived EXCEPT !.pc = "await",
                                             !.files = getProjectFiles(store, ProjectId),
                                             !.overlapped = Waiting(requests) # {}]
                        ELSE IF q \in Waiting(requests)
                             THEN [requests[q] EXCEPT !.overlapped = TRUE]
                             ELSE requests[q]]
    /\ UNCHANGED <<classes, buildPos, funcMap, tracers, queryResult, tracerVars,
                   parser, store, running, storageVars>>

\* the handler after its await, up to the first parseFile call: lines 294-307.
\* Any waiting request may be the next to go on.
Resume(r) ==
    /\ running = NoRequest
    /\ requests[r].pc = "await"
    /\ IF requests[r].files = <<>>
       THEN /\ requests' = [requests EXCEPT ![r].pc = "done",
                                            ![r].response = ErrorResponse(404)]
            /\ UNCHANGED <<classes, parser, running>>
       ELSE /\ requests' = [requests EXCEPT ![r].pc = "run", ![r].fileIndex = 1]
            /\ running' = r
            /\ classes' = <<>>
            /\ parser' = ParseBegun(requests[r].files[1])
    /\ UNCHANGED <<buildPos, funcMap, tracers, queryResult, tracerVars, store, storageVars>>

\* allClasses.push(...classes), then the next file, or after the last file the
\* call of buildFuncMap: lines 308-312
CollectClasses ==
    /\ running # NoRequest
    /\ parser.phase = "done"
    /\ LET r == running
           allClasses == classes \o parser.classes
           next == requests[r].fileIndex + 1
       IN  /\ classes' = allClasses
           /\ requests' = [requests EXCEPT ![r].fileIndex = next]
           /\ IF next <= Len(requests[r].files)
              THEN /\ parser' = ParseBegun(requests[r].files[next])
                   /\ UNCHANGED <<funcMap, buildPos>>
              ELSE /\ parser' = ParserIdle
                   /\ funcMap' = <<>>
                   /\ buildPos' = PosFrom(allClasses, 1, 1)
    /\ UNCHANGED <<tracers, queryResult, tracerVars, store, running, storageVars>>

\* the files are parsed and the function map is built
FuncMapBuilt ==
    /\ running # NoRequest
    /\ requests[running].fileIndex > Len(requests[running].files)
    /\ buildPos = Done

\* lines 318-341: the queries and the response; when the trace threw, the
\* catch clause.  The handler returns and its parser, maps and tracer are
\* unreachable.
Respond ==
    /\ running # NoRequest
    /\ active = NoTracer
    /\ outcomes # <<>>
    /\ requests' = [requests EXCEPT
           ![running].pc = "done",
           ![running].response =
               IF outcomes[1].kind = "graph"
               THEN GraphResponse(outcomes[1], heap, funcMap, classes)
               ELSE ErrorResponse(500)]
    /\ running' = NoRequest
    /\ parser' = ParserIdle
    /\ classes' = <<>>
    /\ funcMap' = <<>>
    /\ tracers' = {}
    /\ visited' = [t \in TracerIds |-> {}]
    /\ nodes' = [t \in TracerIds |-> 0]
    /\ links' = [t \in TracerIds |-> 0]
    /\ nodeIdCounter' = [t \in TracerIds |-> 0]
    /\ heap' = <<>>
    /\ outcomes' = <<>>
    /\ UNCHANGED <<buildPos, stack, active, queryResult, store, storageVars>>

\* one step of a trace of what parseFile made: parseStatements makes no
\* statement of another type than the three, so the default case is not met
StepOfParsed ==
    \/ EnterEntryMethod
    \/ ProcessMethodCall
    \/ ProcessIfStatement
    \/ IfFalseBranch
    \/ IfMerge
    \/ ProcessLoopStatement
    \/ LoopExit
    \/ TraceMethodReturn
    \/ FinishTrace

InitRoute ==
    /\ classes = <<>>
    /\ buildPos = Done
    /\ funcMap = <<>>
    /\ InitTracers
    /\ parser = ParserIdle
    /\ requests = [r \in RequestIds |-> RequestIdle]
    /\ store \in Stores
    /\ running = NoRequest
    /\ InitStorage

NextRoute ==
    \/ \E r \in RequestIds : \E e \in RequestedEntries : Receive(r, e)
    \/ \E r \in RequestIds : Resume(r)
    \/ ParseLine
    \/ ParseEnd
    \/ CollectClasses
    \/ BuildFuncMapStep
    \/ FuncMapBuilt /\ tracers = {} /\ \E t \in TracerIds : Construct(t)
    \/ /\ FuncMapBuilt
       /\ outcomes = <<>>
       /\ \E t \in TracerIds : TraceFromEntryMethod(t, EntryOf(requests, running))
    \/ StepOfParsed
    \/ Respond

\* three requests for the call flow of one project, on stored files that do
\* not change; a handler runs from one await to the next without interruption
SpecRoute == InitRoute /\ [][NextRoute]_vars

----------------------------------------------------------------------------
(* Requests that overlap *)

Answered(r) == requests[r].pc = "done"

\* C14: the response to a request, its graph included, is the response to a
\* request with the same entry method that was handled alone, with no other
\* request waiting at the await while it was handled, on the same stored files.
C14_ResponseAsWhenAlone ==
    \A r \in RequestIds : \A q \in RequestIds :
        (/\ Answered(r)
         /\ Answered(q)
         /\ ~requests[q].overlapped
         /\ requests[r].entryMethod = requests[q].entryMethod)
            => requests[r].response = requests[q].response

\* two requests with different entry methods waited at the await together, a
\* third request with the entry method of one of them was handled alone, and
\* all three got a graph
C14_Witness ==
    \E r \in RequestIds : \E o \in RequestIds : \E q \in RequestIds :
        /\ Answered(r) /\ Answered(o) /\ Answered(q)
        /\ requests[r].overlapped /\ requests[o].overlapped /\ ~requests[q].overlapped
        /\ requests[r].entryMethod # requests[o].entryMethod
        /\ requests[r].entryMethod = requests[q].entryMethod
        /\ requests[r].response.status = 200
        /\ requests[o].response.status = 200
        /\ requests[q].response.status = 200
        /\ Len(requests[r].response.callFlowGraph.nodes) > 3

----------------------------------------------------------------------------
(* The end of processLoopStatement *)

\* a begun processLoopStatement call is not abandoned: it stays on the stack
\* until the step that ends it
LoopCallsGoOn ==
    \A d \in 1..Len(stack) :
        stack[d].fn = "processLoopStatement" =>
            \/ d = Len(stack) /\ LoopEndReached
            \/ /\ Len(stack') >= d
               /\ stack'[d].fn = "processLoopStatement"
               /\ stack'[d].own = stack[d].own

\* the step adds the Exit node and the link loop -> exit, returns the id of the
\* Exit node, and adds the back link bodyEnd -> loop before it exactly when the
\* body returned another id than that of the Loop node
ExitAndBackLinkIfBody ==
    LET exitId == NodeIdOf(nodeIdCounter[active])
        exitLink == FlowLink(Top.own, exitId, "loop_exit")
    IN  /\ AddedNodes = <<FlowNode(exitId, "method", Str_LoopExit, Undefined, Undefined)>>
        /\ IF Top.cur # Top.own
           THEN AddedLinks = <<FlowLink(Top.cur, Top.own, "loop_exit"), exitLink>>
           ELSE AddedLinks = <<exitLink>>
        /\ Len(stack') = Len(stack) - 1
        /\ stack'[Len(stack')].cur = exitId

\* C21: every processLoopStatement call, whatever the body, gets to its end, and
\* there it emits the Exit node with the loop_exit link loop -> exit and returns
\* the Exit node id, with the back link bodyEnd -> loop exactly when the body
\* returned an id other than the Loop node's.
C21_LoopAlwaysExits ==
    [][LoopCallsGoOn /\ (LoopEndReached => ExitAndBackLinkIfBody)]_vars

\* What the code does whenever processLoopStatement gets to its end.
ExitAtEndOfLoop ==
    [][LoopEndReached => ExitAndBackLinkIfBody]_vars

\* a trace threw while a processLoopStatement call was on the stack: the Loop
\* node is in this.nodes and no Exit node follows it
LoopAbandonedReached ==
    \E i \in 1..Len(outcomes) :
        /\ outcomes[i].kind = "TypeError"
        /\ \E j \in 1..Len(heap[nodes[outcomes[i].tracer]]) :
               heap[nodes[outcomes[i].tracer]][j].type = "loop"

----------------------------------------------------------------------------
(* The fold of traceMethod *)

\* the step enters traceMethod's loop: a traceMethod frame that was not there
EntersFold ==
    /\ Running /\ active' = active
    /\ Len(stack') > 0
    /\ stack'[Len(stack')].fn = "traceMethod"
    /\ \/ Len(stack') > Len(stack)
       \/ Top.fn # "traceMethod" /\ Len(stack') = Len(stack)

\* the step ends a call made by the loop of a traceMethod frame, which is on
\* top of the stack after it
ReturnsToFold ==
    /\ Running /\ active' = active
    /\ Len(stack) > 1
    /\ Len(stack') = Len(stack) - 1
    /\ stack[Len(stack) - 1].fn = "traceMethod"

\* what the call that ends returns: traceMethod its currentNodeId, the others
\* the node they make last, or their own node when they make none
ReturnedId ==
    IF Top.fn = "traceMethod"
    THEN Top.cur
    ELSE IF AddedNodes # <<>> THEN AddedNodes[Len(AddedNodes)].id ELSE Top.own

\* C22: traceMethod starts its fold with the id of its Method node; the first
\* link a statement adds has as source the id the fold holds, which is the id
\* the statement before it returned; and traceMethod returns the id the fold
\* holds after the last statement (the Method node id when there is none).
C22_FoldThreadsTerminalId ==
    [][/\ EntersFold =>
              /\ AddedNodes # <<>>
              /\ AddedNodes[1].type = "method"
              /\ stack'[Len(stack')].own = AddedNodes[1].id
              /\ stack'[Len(stack')].cur = AddedNodes[1].id
       /\ (InLoop /\ Top.fn = "traceMethod" /\ Top.rest # <<>> /\ AddedLinks # <<>>) =>
              AddedLinks[1].source = Top.cur
       /\ (InLoop /\ Top.fn = "traceMethod" /\ Top.rest # <<>> /\ active' = active
           /\ Len(stack') = Len(stack)) =>
              stack'[Len(stack')].cur =
                  (IF AddedNodes # <<>> THEN AddedNodes[1].id ELSE Top.cur)
       /\ ReturnsToFold => stack'[Len(stack')].cur = ReturnedId]_vars

\* the fold of a method is about to process a Call and holds the id of a node
\* made two or more nodes after the Method node of the call before: the end of
\* the unfolding of a resolved callee with statements
C22_Witness ==
    /\ InLoop
    /\ Top.fn = "traceMethod"
    /\ Top.rest # <<>>
    /\ Head(Top.rest).type = "method_call"
    /\ Top.cur # Top.own
    /\ \E k \in 1..Len(CurLinks) :
           /\ CurLinks[k].type = "calls"
           /\ CurLinks[k].source = Top.own
           /\ CurLinks[k].target[2] < Top.cur[2]
           /\ \E j \in 1..Len(CurLinks) :
                  CurLinks[j].source = CurLinks[k].target /\ CurLinks[j].type = "calls"

----------------------------------------------------------------------------
(* Resolution of a callee name *)

\* the next step processes a Call statement
CallReached ==
    /\ InLoop
    /\ Top.rest # <<>>
    /\ Head(Top.rest).type = "method_call"

\* the positions of the keys that end with '.c', and of the keys equal to c
SuffixPositions(fm, c) == {i \in 1..Len(fm) : EndsWith(fm[i].key, <<Dot>> \o c)}

ExactPositions(fm, c) == {i \in 1..Len(fm) : fm[i].key = c}

\* the first key that ends with '.c' or, when there is none, the key c
SuffixThenExactKey(fm, c) ==
    IF SuffixPositions(fm, c) # {} THEN fm[Least(SuffixPositions(fm, c))].key ELSE c

\* the first key that ends with '.c' or is c
FirstMatchingKey(fm, c) == fm[Least(SuffixPositions(fm, c) \cup ExactPositions(fm, c))].key

\* the step is traceMethod called with the key: its Method node, or its
\* reference node when the key is visited, is the one node added, and the key
\* is visited after the step
RecursesInto(key) ==
    /\ Len(AddedNodes) = 1
    /\ AddedNodes[1].type = "method"
    /\ AddedNodes[1].className = extractClassName(key)
    /\ AddedNodes[1].name = (IF key \in visited[active]
                             THEN key \o Str_SpRef
                             ELSE extractMethodName(key))
    /\ AddedLinks = <<FlowLink(Top.cur, AddedNodes[1].id, "calls")>>
    /\ key \in visited'[active]

\* C23: a Call with callee name c resolves to the first key, in the iteration
\* order of the map, that ends with '.c', and only when no key ends with '.c'
\* to a key equal to c; when there is such a key the tracer calls traceMethod
\* with it.
C23_SuffixBeforeExact ==
    [][(/\ CallReached
        /\ SuffixPositions(funcMap, Head(Top.rest).name)
               \cup ExactPositions(funcMap, Head(Top.rest).name) # {})
           => RecursesInto(SuffixThenExactKey(funcMap, Head(Top.rest).name))]_vars

\* C23 as the code has it: the Call resolves to the first key, in the iteration
\* order of the map, that ends with '.c' or is equal to c, and the tracer calls
\* traceMethod with that key; of several keys with the suffix the first is used.
C23_FirstMatchingKey ==
    [][(/\ CallReached
        /\ SuffixPositions(funcMap, Head(Top.rest).name)
               \cup ExactPositions(funcMap, Head(Top.rest).name) # {})
           => RecursesInto(FirstMatchingKey(funcMap, Head(Top.rest).name))]_vars

\* a Call is about to be processed on a map in which two keys end with '.c',
\* and the second of them is visited while the first is not: the Call unfolds
\* the first
C23_Witness ==
    /\ CallReached
    /\ Cardinality(SuffixPositions(funcMap, Head(Top.rest).name)) = 2
    /\ \E i \in SuffixPositions(funcMap, Head(Top.rest).name) :
           /\ i # Least(SuffixPositions(funcMap, Head(Top.rest).name))
           /\ funcMap[i].key \in visited[active]
    /\ funcMap[Least(SuffixPositions(funcMap, Head(Top.rest).name))].key \notin visited[active]
    /\ Len(stack) < MaxDepth

\* a Call is about to be processed on a map in which a key equal to c comes
\* before a key that ends with '.c'
ExactBeforeSuffixReached ==
    /\ CallReached
    /\ \E i \in ExactPositions(funcMap, Head(Top.rest).name) :
           \E j \in SuffixPositions(funcMap, Head(Top.rest).name) : i < j
    /\ Len(stack) < MaxDepth

----------------------------------------------------------------------------
(* Where parseFile opens a method *)

\* the loop of parseFile is about to read a line
LineReached == parser.phase = "lines" /\ parser.i < Len(parser.lines)

\* the line about to be read has the shape of a method declaration
MethodShapedLineReached ==
    /\ LineReached
    /\ Scanned[parser.lines[parser.i + 1]].methodMatch[parser.language] # NoMatch

\* the step opens a method
MethodOpened ==
    /\ Len(parser'.opened) = Len(parser.opened) + 1
    /\ parser'.opened[Len(parser'.opened)].kind = "method"

\* C24: a method is opened only by a method-shaped line read while a class is
\* open and no method is open; a method-shaped line read while a method is open
\* opens no method and leaves the open method open and not yet pushed.
C24_MethodOpensOnlyOutsideMethod ==
    [][/\ (LineReached /\ MethodOpened)
           => /\ MethodShapedLineReached
              /\ parser.currentClass # Null
              /\ parser.currentMethod = Null
       /\ (MethodShapedLineReached /\ parser.currentMethod # Null)
           => /\ ~MethodOpened
              /\ parser'.currentMethod # Null
              /\ parser'.currentMethod[1].name = parser.currentMethod[1].name
              /\ parser'.currentMethod[1].lineNumber = parser.currentMethod[1].lineNumber]_vars

\* what does hold: a method is opened only by a method-shaped line read while
\* a class is open
MethodOpensOnlyInClass ==
    [][(LineReached /\ MethodOpened)
           => /\ MethodShapedLineReached
              /\ parser.currentClass # Null
              /\ parser.inClass]_vars

\* a method-shaped line is about to be read while a method is open
MethodShapedLineInMethodReached ==
    /\ MethodShapedLineReached
    /\ parser.currentMethod # Null
    /\ parser.inMethod

----------------------------------------------------------------------------
(* Where parseFile closes a class *)

\* the log entries of the classes whose body, by the braces of the text,
\* holds line j
EnclosingClassOpenings(p, j) ==
    {a \in ClassOpenings(p) : p.opened[a].line < j
                              /\ InBodyOpenedAt(p.lines, p.opened[a].line, j)}

Greatest(S) == CHOOSE a \in S : \A b \in S : b <= a

\* the step pushes a class into the returned list
ClassClosed == Len(parser'.classes) > Len(parser.classes)

\* the brace depth after the line about to be read is the depth before the
\* line that opened the class that is open
DepthBackAtClassOpening ==
    /\ parser.currentClass # Null
    /\ DepthAfter(parser.lines, parser.i + 1)
           = DepthAfter(parser.lines, parser.opened[Greatest(ClassOpenings(parser))].line - 1)

\* C25: on a text with well-formed braces, a line closes the open class
\* exactly when it brings the brace depth back to the depth before the line
\* that opened the class, at whatever depth the class was opened; and a method
\* is attached to the innermost class whose body holds its declaration line,
\* so a method declared in an outer class after a nested class is attached to
\* the outer class.
C25_ClassClosesAtOpeningDepth ==
    [][(LineReached /\ WellFormedBraces(parser.lines))
           => /\ ClassClosed <=> DepthBackAtClassOpening
              /\ MethodOpened
                     => /\ EnclosingClassOpenings(parser, parser.i + 1) # {}
                        /\ parser'.currentMethod[1].className
                               = parser.opened[Greatest(EnclosingClassOpenings(parser, parser.i + 1))].name]_vars

\* the text is read to its end, its braces are well-formed, a class was
\* declared in the body of another, and a method declared after the inner
\* class's closing brace is returned in the inner class
OuterMethodInNestedClassReached ==
    /\ parser.phase = "done"
    /\ WellFormedBraces(parser.lines)
    /\ Len(parser.classes) = 2
    /\ parser.classes[1].methods = <<>>
    /\ \E m \in 1..Len(parser.classes[2].methods) :
           LET method == parser.classes[2].methods[m]
           IN  /\ EnclosingClassOpenings(parser, method.lineNumber) = {1}
               /\ parser.opened[1].name = parser.classes[1].name
               /\ method.className = parser.classes[2].name
               /\ parser.classes[2].name # parser.classes[1].name

\* what does hold for classes that are not nested: when no class is declared
\* in the body of another, a line closes the open class exactly when it brings
\* the brace depth back to the depth before the line that opened it, or when it
\* opens the next class
NoNestedClass(p) ==
    \A j \in 1..Len(p.lines) :
        (~(StartsWith(Scanned[p.lines[j]].line, <<"/", "/">>))
         /\ Scanned[p.lines[j]].classMatch[p.language] # NoMatch)
            => DepthAfter(p.lines, j - 1) = 0

TopLevelClassClosesAtOpeningDepth ==
    [][(LineReached /\ WellFormedBraces(parser.lines) /\ NoNestedClass(parser)
        /\ DepthBackAtClassOpening)
           => ClassClosed]_vars

----------------------------------------------------------------------------
(* Statements without bodies through the pipeline *)

\* the statement is a Branch or a Loop with a statement in one of its bodies
HasBody(statement) ==
    \/ statement.type = "if_statement"
       /\ (statement.trueBranch # <<>> \/ statement.falseBranch # <<>>)
    \/ statement.type = "loop_statement" /\ statement.body # <<>>

\* the graph has no Merge node, no if_true or if_false link and no link back
\* to a Loop node
FlatGraph(graphNodes, graphLinks) ==
    /\ \A a \in 1..Len(graphNodes) :
           ~(graphNodes[a].name = Str_Merge /\ graphNodes[a].className = Undefined)
    /\ \A b \in 1..Len(graphLinks) :
           /\ graphLinks[b].type \notin {"if_true", "if_false"}
           /\ ~(/\ graphLinks[b].type = "loop_exit"
                /\ \E a \in 1..Len(graphNodes) :
                       /\ graphNodes[a].id = graphLinks[b].target
                       /\ graphNodes[a].type = "loop")

\* the graph has a Decision node and a Loop node
HasDecisionAndLoop(graphNodes) ==
    /\ \E a \in 1..Len(graphNodes) : graphNodes[a].type = "decision"
    /\ \E a \in 1..Len(graphNodes) : graphNodes[a].type = "loop"

NoBodyParsed == \A statement \in ParsedStatements(parser) : ~HasBody(statement)

GraphsAreFlat ==
    /\ active # NoTracer => FlatGraph(CurNodes, CurLinks)
    /\ \A r \in RequestIds :
           requests[r].response.status = 200
               => FlatGraph(requests[r].response.callFlowGraph.nodes,
                            requests[r].response.callFlowGraph.links)

\* processIfStatement returns the id of its Decision node
DecisionReturned ==
    (InLoop /\ Top.fn = "processIfStatement" /\ Top.phase = "false" /\ Top.rest = <<>>)
        => /\ Len(stack') = Len(stack) - 1
           /\ stack'[Len(stack')].cur = Top.own
           /\ UNCHANGED heap

\* C26: every Branch and every Loop that parseFile makes has empty bodies, so
\* in the graphs of POST /api/projects/:id/call-flow there is no Merge node, no
\* if_true or if_false link and no link back to a Loop node, and every call of
\* processIfStatement returns the id of its own Decision node.
C26_PipelineGraphsAreFlat ==
    /\ [](NoBodyParsed /\ GraphsAreFlat)
    /\ [][DecisionReturned]_vars

\* a request is answered with a graph that has a Decision node and a Loop node
C26_Witness ==
    \E r \in RequestIds :
        /\ requests[r].response.status = 200
        /\ HasDecisionAndLoop(requests[r].response.callFlowGraph.nodes)

----------------------------------------------------------------------------
(* Start and End in a returned graph *)

LinkSet(graphLinks) == {graphLinks[b] : b \in 1..Len(graphLinks)}

\* the ids of the nodes that the links lead to from the ids in S
RECURSIVE LinkedFrom(_, _)
LinkedFrom(S, linkSet) ==
    LET T == S \cup {l.target : l \in {m \in linkSet : m.source \in S}}
    IN  IF T = S THEN S ELSE LinkedFrom(T, linkSet)

StartAndEndOf(graphNodes, graphLinks, entryMethod) ==
    LET startId == graphNodes[1].id
        endId == graphNodes[Len(graphNodes)].id
        fromStart == {b \in 1..Len(graphLinks) : graphLinks[b].source = startId}
    IN  /\ graphNodes[1].type = "start"
        /\ graphNodes[Len(graphNodes)].type = "end"
        /\ \A a \in 2..(Len(graphNodes) - 1) : graphNodes[a].type \notin {"start", "end"}
        /\ Cardinality(fromStart) = 1
        /\ \A b \in fromStart :
               /\ graphLinks[b].type = "calls"
               /\ graphLinks[b].target = graphNodes[2].id
               /\ graphNodes[2].type = "method"
               /\ graphNodes[2].name = extractMethodName(entryMethod)
               /\ graphNodes[2].className = extractClassName(entryMethod)
        /\ \A l \in LinkSet(graphLinks) :
               l.target # startId /\ l.source # endId /\ l.target # endId
        /\ {graphNodes[a].id : a \in 1..(Len(graphNodes) - 1)}
               \subseteq LinkedFrom({startId}, LinkSet(graphLinks))

\* C27: in every returned graph the Start node is the source of exactly one
\* link, a calls link to the Method node of the entry method, and the target
\* of none; the End node is neither source nor target of a link; and every
\* node but End is reached from Start along the links.
C27_StartLeadsEverywhereEndIsolated ==
    \A i \in Graphs :
        StartAndEndOf(GraphNodes(i), GraphLinks(i), outcomes[i].entryMethod)

\* a graph is returned that has a Merge node, a Loop node and its Exit node,
\* and a node reached from Start only over four links or more
C27_Witness ==
    \E i \in Graphs :
        /\ \E a \in 1..Len(GraphNodes(i)) : GraphNodes(i)[a].name = Str_Merge
        /\ \E a \in 1..Len(GraphNodes(i)) : GraphNodes(i)[a].type = "loop"
        /\ \E a \in 1..Len(GraphNodes(i)) : GraphNodes(i)[a].name = Str_LoopExit
        /\ Len(GraphNodes(i)) >= 7

----------------------------------------------------------------------------
(* The key of a rendered link *)

\* key={`${link.source}-${link.target}`} in renderLink
LinkKey(link) == link.source \o <<"-">> \o link.target

KeysAreUnique(graphLinks) ==
    \A a, b \in 1..Len(graphLinks) :
        LinkKey(graphLinks[a]) = LinkKey(graphLinks[b]) => a = b

\* C28: in every returned graph no two links have the same source and the
\* same target, so that the keys the renderer gives the links are unique.
C28_LinkKeysUnique == \A i \in Graphs : KeysAreUnique(GraphLinks(i))

\* what does hold: no two links of a returned graph agree in source, target
\* and type
LinksDifferInSourceTargetOrType ==
    \A i \in Graphs :
        \A a, b \in 1..Len(GraphLinks(i)) : GraphLinks(i)[a] = GraphLinks(i)[b] => a = b

\* a graph is returned in which a calls link and an if_true link have the same
\* source and the same target
CallsAndIfTrueShareKeyReached ==
    \E i \in Graphs :
        \E a, b \in 1..Len(GraphLinks(i)) :
            /\ GraphLinks(i)[a].type = "calls"
            /\ GraphLinks(i)[b].type = "if_true"
            /\ LinkKey(GraphLinks(i)[a]) = LinkKey(GraphLinks(i)[b])

----------------------------------------------------------------------------
(* MemStorage (storage.ts) *)

\* a Project; of its fields the id, the status and the counts are kept
Project(id, status) ==
    [id |-> id, status |-> status, fileCount |-> 0, classCount |-> 0, methodCount |-> 0,
     functionCount |-> 0]

\* this.projects.get(id) is defined
HasProject(ps, id) == \E k \in 1..Len(ps) : ps[k].id = id

\* createProject(insertProject): this.projects.set(id, project) with a fresh id
createProject(ps, id, status) == Append(ps, Project(id, status))

\* { ...existing, ...updates }
Merged(existing, updates) ==
    [f \in DOMAIN existing |-> IF f \in DOMAIN updates THEN updates[f] ELSE existing[f]]

\* updateProject(id, updates): the Map after the call; an unknown id changes nothing
updateProject(ps, id, updates) ==
    [k \in 1..Len(ps) |-> IF ps[k].id = id THEN Merged(ps[k], updates) ELSE ps[k]]

\* the value updateProject(id, updates) resolves to
UpdatedProject(ps, id, updates) ==
    IF HasProject(ps, id)
    THEN Merged(ps[CHOOSE k \in 1..Len(ps) : ps[k].id = id], updates)
    ELSE Undefined

\* this.projects.delete(id)
ProjectsWithout(ps, id) ==
    LET HasOtherId(project) == project.id # id
    IN  SelectSeq(ps, HasOtherId)

\* deleteProjectFiles(projectId) and deleteCodeComponents(projectId): the Map
\* after the call
deleteByProject(stored, projectId) ==
    LET OfOtherProject(value) == value.projectId # projectId
    IN  SelectSeq(stored, OfOtherProject)

\* createProjectFile(insertFile): this.projectFiles.set(id, file) with a fresh id
createProjectFile(fs, id, projectId, path) ==
    Append(fs, [id |-> id, projectId |-> projectId, path |-> path])

\* createCodeComponent(insertComponent)
createCodeComponent(cs, id, projectId, fileId, component) ==
    Append(cs, [id |-> id, projectId |-> projectId, fileId |-> fileId,
                name |-> component.name, type |-> component.type])

----------------------------------------------------------------------------
(* The upload and delete routes (routes.ts) *)

\* parseCodeFile(content, type), first pass: a class component for a class
\* line, a method component for a method line; name and type are kept
RECURSIVE parseCodeFile(_)
parseCodeFile(lines) ==
    IF lines = <<>>
    THEN <<>>
    ELSE LET scanned == Scanned[Head(lines)]
             line == scanned.line
         IN  (IF StartsWith(line, <<"/", "/">>) \/ StartsWith(line, <<"/", "*">>)
                 \/ StartsWith(line, <<"*">>) \/ line = <<>>
              THEN <<>>
              ELSE IF scanned.classMatch["java"] # NoMatch
              THEN <<[name |-> scanned.classMatch["java"], type |-> "class"]>>
              ELSE IF scanned.methodMatch["java"] # NoMatch
                      /\ ~Includes(line, Str_class \o <<" ">>)
              THEN <<[name |-> scanned.methodMatch["java"], type |-> "method"]>>
              ELSE <<>>)
             \o parseCodeFile(Tail(lines))

\* files per upload request
MaxFiles == 2

\* the files of the requests: a Java source, a text file, an archive that
\* cannot be loaded, and an archive with a directory and a Java source
Uploaded ==
    [java |-> [name |-> FileName.A_java, dir |-> FALSE, corrupt |-> FALSE,
               content |-> <<Line.classA, Line.voidF, Line.close, Line.close>>],
     text |-> [name |-> <<"a", ".", "t", "x", "t">>, dir |-> FALSE, corrupt |-> FALSE,
               content |-> <<>>],
     badZip |-> [name |-> <<"b", ".", "z", "i", "p">>, dir |-> FALSE, corrupt |-> TRUE,
                 content |-> <<>>],
     zip |-> [name |-> <<"s", ".", "z", "i", "p">>, dir |-> FALSE, corrupt |-> FALSE,
              content |-> <<[name |-> <<"s", "/">>, dir |-> TRUE, content |-> <<>>],
                            [name |-> <<"s", "/">> \o FileName.B_kt, dir |-> FALSE,
                             content |-> <<Line.classB, Line.funG, Line.close, Line.close>>]>>]]

UploadedFiles == {Uploaded.java, Uploaded.text, Uploaded.badZip, Uploaded.zip}

\* req.files
UploadRequests == UNION {[1..k -> UploadedFiles] : k \in 0..MaxFiles}

\* the outcomes of downloadGitHubRepo: it rejects, or resolves to files
Downloads ==
    {[rejected |-> TRUE, files |-> <<>>]}
    \cup {[rejected |-> FALSE, files |-> files] :
             files \in {<<>>, <<Uploaded.java>>, <<Uploaded.text, Uploaded.java>>}}

IsSource(name) ==
    EndsWith(name, <<".", "j", "a", "v", "a">>) \/ EndsWith(name, <<".", "k", "t">>)

IsZip(name) == EndsWith(name, <<".", "z", "i", "p">>)

\* the fresh id of the file that handler h creates next
NextFileId(h) == <<h, handlers[h].created + 1>>

\* POST /api/projects up to the await of createProject: lines 43-60
UploadArrives(files) ==
    /\ handlers["upload"].pc = "idle"
    /\ IF files = <<>>
       THEN /\ handlers' = [handlers EXCEPT !["upload"].pc = "done",
                                            !["upload"].response = ErrorResponse(400)]
            /\ UNCHANGED projects
       ELSE /\ projects' = createProject(projects, "upload", "analyzing")
            /\ handlers' = [handlers EXCEPT !["upload"].pc = "loop",
                                            !["upload"].project = "upload",
                                            !["upload"].files = files]
    /\ UNCHANGED <<projectFiles, codeComponents>>

\* POST /api/projects/github up to the await of createProject, and the call
\* of downloadGitHubRepo: lines 185-213
GithubArrives(validUrl) ==
    /\ handlers["github"].pc = "idle"
    /\ IF ~validUrl
       THEN /\ handlers' = [handlers EXCEPT !["github"].pc = "done",
                                            !["github"].response = ErrorResponse(400)]
            /\ UNCHANGED projects
       ELSE /\ projects' = createProject(projects, "github", "analyzing")
            /\ handlers' = [handlers EXCEPT !["github"].pc = "download",
                                            !["github"].project = "github"]
    /\ UNCHANGED <<projectFiles, codeComponents>>

\* await downloadGitHubRepo(owner, repo) is over; when it rejected, the inner
\* catch clause up to the await of updateProject: lines 213-219, 258-260
Downloaded(download) ==
    /\ handlers["github"].pc = "download"
    /\ IF download.rejected
       THEN /\ projects' = updateProject(projects, "github", [status |-> "error"])
            /\ handlers' = [handlers EXCEPT !["github"].pc = "respond",
                                            !["github"].response = ErrorResponse(500)]
       ELSE /\ handlers' = [handlers EXCEPT !["github"].pc = "loop",
                                            !["github"].files = download.files]
            /\ UNCHANGED projects
    /\ UNCHANGED <<projectFiles, codeComponents>>

\* the updates of the last updateProject call: lines 133-139, 249-255
Counts(handler) ==
    [status |-> "ready", fileCount |-> handler.fileCount, classCount |-> handler.classCount,
     methodCount |-> handler.methodCount, functionCount |-> handler.functionCount]

\* for (const file of files): the next file.  A source file is stored (lines
\* 102-115, 220-231), an archive is handed to JSZip (lines 68-71; the GitHub
\* route has no such case), any other file is passed over; after the last
\* file updateProject is called
NextFile(h) ==
    /\ handlers[h].pc = "loop"
    /\ LET handler == handlers[h]
           files == handler.files
       IN  IF files = <<>>
           THEN /\ projects' = updateProject(projects, handler.project, Counts(handler))
                /\ handlers' = [handlers EXCEPT ![h].pc = "respond",
                       ![h].response =
                           [status |-> 200,
                            body |-> UpdatedProject(projects, handler.project,
                                                    Counts(handler))]]
                /\ UNCHANGED projectFiles
           ELSE IF h = "upload" /\ IsZip(files[1].name)
           THEN /\ handlers' = [handlers EXCEPT ![h].pc = "loadAsync"]
                /\ UNCHANGED <<projects, projectFiles>>
           ELSE IF IsSource(files[1].name)
           THEN /\ projectFiles' = createProjectFile(projectFiles, NextFileId(h),
                                                     handler.project, files[1].name)
                /\ handlers' = [handlers EXCEPT ![h].pc = "components",
                                                ![h].fileId = NextFileId(h),
                                                ![h].created = @ + 1,
                                                ![h].components = parseCodeFile(files[1].content)]
                /\ UNCHANGED projects
           ELSE /\ handlers' = [handlers EXCEPT ![h].files = Tail(files)]
                /\ UNCHANGED <<projects, projectFiles>>
    /\ UNCHANGED codeComponents

\* await zip.loadAsync(file.buffer) is over; when it rejected, the catch
\* clause of the route: lines 71, 142-145
ZipLoaded ==
    /\ handlers["upload"].pc = "loadAsync"
    /\ IF handlers["upload"].files[1].corrupt
       THEN handlers' = [handlers EXCEPT !["upload"].pc = "done",
                                         !["upload"].response = ErrorResponse(500)]
       ELSE handlers' = [handlers EXCEPT !["upload"].pc = "entries",
                                         !["upload"].entries =
                                             handlers["upload"].files[1].content]
    /\ UNCHANGED <<projects, projectFiles, codeComponents>>

\* for (const [filename, zipFile] of Object.entries(contents.files)): the next
\* entry, up to the await of zipFile.async('text'): lines 73-75
ZipEntry ==
    /\ handlers["upload"].pc = "entries"
    /\ LET entries == handlers["upload"].entries
       IN  IF entries = <<>>
           THEN handlers' = [handlers EXCEPT !["upload"].pc = "loop",
                                             !["upload"].files = Tail(@)]
           ELSE IF ~entries[1].dir /\ IsSource(entries[1].name)
           THEN handlers' = [handlers EXCEPT !["upload"].pc = "text"]
           ELSE handlers' = [handlers EXCEPT !["upload"].entries = Tail(entries)]
    /\ UNCHANGED <<projects, projectFiles, codeComponents>>

\* the text of the entry is read: createProjectFile and parseCodeFile, lines 75-86
ZipEntryRead ==
    /\ handlers["upload"].pc = "text"
    /\ LET handler == handlers["upload"]
       IN  /\ projectFiles' = createProjectFile(projectFiles, NextFileId("upload"),
                                                handler.project, handler.entries[1].name)
           /\ handlers' = [handlers EXCEPT
                  !["upload"].pc = "components",
                  !["upload"].fileId = NextFileId("upload"),
                  !["upload"].created = @ + 1,
                  !["upload"].components = parseCodeFile(handler.entries[1].content)]
    /\ UNCHANGED <<projects, codeComponents>>

\* for (const component of components): createCodeComponent and the counts;
\* after the last component totalFiles++ and the next entry or file: lines
\* 87-100, 116-129, 232-245
NextComponent(h) ==
    /\ handlers[h].pc = "components"
    /\ LET handler == handlers[h]
           components == handler.components
       IN  IF components = <<>>
           THEN /\ handlers' =
                       [handlers EXCEPT
                           ![h].fileCount = @ + 1,
                           ![h].pc = IF handler.entries = <<>> THEN "loop" ELSE "entries",
                           ![h].files = IF handler.entries = <<>> THEN Tail(@) ELSE @,
                           ![h].entries = IF handler.entries = <<>> THEN @ ELSE Tail(@)]
                /\ UNCHANGED codeComponents
           ELSE /\ codeComponents' =
                       createCodeComponent(codeComponents,
                           <<handler.fileId, Len(components)>>, handler.project,
                           handler.fileId, components[1])
                /\ handlers' =
                       [handlers EXCEPT
                           ![h].components = Tail(components),
                           ![h].classCount =
                               IF components[1].type \in {"class", "interface"}
                               THEN @ + 1 ELSE @,
                           ![h].methodCount =
                               IF components[1].type = "method" THEN @ + 1 ELSE @]
    /\ UNCHANGED <<projects, projectFiles>>

\* await storage.updateProject(...) is over: res.json(updatedProject), or the
\* 500 of the inner catch clause
RespondToUpload(h) ==
    /\ handlers[h].pc = "respond"
    /\ handlers' = [handlers EXCEPT ![h].pc = "done"]
    /\ UNCHANGED <<projects, projectFiles, codeComponents>>

\* DELETE /api/projects/:id and deleteProject(id) up to its first await:
\* this.projects.delete(id) and, when it deleted, deleteProjectFiles(id)
DeleteArrives(id) ==
    /\ handlers["delete"].pc = "idle"
    /\ projects' = ProjectsWithout(projects, id)
    /\ IF HasProject(projects, id)
       THEN /\ projectFiles' = deleteByProject(projectFiles, id)
            /\ handlers' = [handlers EXCEPT !["delete"].pc = "deleteCodeComponents",
                                            !["delete"].project = id]
       ELSE /\ handlers' = [handlers EXCEPT !["delete"].pc = "respond",
                                            !["delete"].project = id,
                                            !["delete"].response = ErrorResponse(404)]
            /\ UNCHANGED projectFiles
    /\ UNCHANGED codeComponents

\* deleteProject(id) after its first await: deleteCodeComponents(id)
DeleteComponents ==
    /\ handlers["delete"].pc = "deleteCodeComponents"
    /\ codeComponents' = deleteByProject(codeComponents, handlers["delete"].project)
    /\ handlers' = [handlers EXCEPT !["delete"].pc = "respond",
                                    !["delete"].response = [status |-> 200]]
    /\ UNCHANGED <<projects, projectFiles>>

\* deleteProject(id) has returned: the response of the route
RespondToDelete ==
    /\ handlers["delete"].pc = "respond"
    /\ handlers' = [handlers EXCEPT !["delete"].pc = "done"]
    /\ UNCHANGED <<projects, projectFiles, codeComponents>>

InitUpload ==
    /\ classes = <<>>
    /\ buildPos = Done
    /\ funcMap = <<>>
    /\ InitTracers
    /\ InitServer

UploadHandlers == {"upload", "github"}

NextUpload ==
    /\ \/ \E files \in UploadRequests : UploadArrives(files)
       \/ \E validUrl \in BOOLEAN : GithubArrives(validUrl)
       \/ \E download \in Downloads : Downloaded(download)
       \/ \E h \in UploadHandlers : NextFile(h)
       \/ ZipLoaded
       \/ ZipEntry
       \/ ZipEntryRead
       \/ \E h \in UploadHandlers : NextComponent(h)
       \/ \E h \in UploadHandlers : RespondToUpload(h)
       \/ \E id \in HandlerIds : DeleteArrives(id)
       \/ DeleteComponents
       \/ RespondToDelete
    /\ UNCHANGED <<classes, buildPos, funcMap, tracers, queryResult, tracerVars, parser,
                   requests, store, running>>

\* one upload request, one GitHub request and one delete request on a new
\* MemStorage; a handler runs from one await to the next without interruption
SpecUpload == InitUpload /\ [][NextUpload]_vars

----------------------------------------------------------------------------
(* The status of a project after its upload request *)

\* the last project of the Map was set by the step
ProjectCreated == Len(projects') = Len(projects) + 1

\* the request of handler h created a project, has completed, and the
\* project is still stored
StoredAfterRequest(h) ==
    /\ handlers[h].pc = "done"
    /\ handlers[h].project = h
    /\ HasProject(projects, h)

StatusOf(id) == projects[CHOOSE k \in 1..Len(projects) : projects[k].id = id].status

\* C29: a project is created by an upload request in status 'analyzing',
\* and once the request that created it has completed, with whatever outcome,
\* its status is 'ready' or 'error'.
C29_NotAnalyzingAfterRequest ==
    /\ [][ProjectCreated => projects'[Len(projects')].status = "analyzing"]_vars
    /\ [](\A h \in UploadHandlers :
              StoredAfterRequest(h) => StatusOf(h) \in {"ready", "error"})

\* what does hold: the claim for the GitHub route alone, and the first status
ReadyOrErrorAfterGithubRequest ==
    /\ [][ProjectCreated => projects'[Len(projects')].status = "analyzing"]_vars
    /\ [](StoredAfterRequest("github") => StatusOf("github") \in {"ready", "error"})

\* POST /api/projects has answered 500 after storing a file of its project,
\* and no delete request has arrived
UploadFailedAfterFileReached ==
    /\ StoredAfterRequest("upload")
    /\ handlers["upload"].response = ErrorResponse(500)
    /\ handlers["upload"].created > 0
    /\ handlers["delete"].pc = "idle"

----------------------------------------------------------------------------
(* Files and components of deleted projects *)

\* the file or component belongs to a stored project
OfStoredProject(value) == HasProject(projects, value.projectId)

\* deleteProject(id) has returned true
DeleteReturnedTrue ==
    /\ handlers["delete"].pc \in {"respond", "done"}
    /\ handlers["delete"].response = [status |-> 200]

\* C30: at every point every stored file and every stored component has the
\* projectId of a stored project, and once deleteProject(id) has returned true
\* there is no file and no component with that projectId, also when an upload
\* for that project is under way.
C30_NoFileWithoutProject ==
    /\ \A k \in 1..Len(projectFiles) : OfStoredProject(projectFiles[k])
    /\ \A k \in 1..Len(codeComponents) : OfStoredProject(codeComponents[k])
    /\ DeleteReturnedTrue
           => /\ \A k \in 1..Len(projectFiles) :
                      projectFiles[k].projectId # handlers["delete"].project
              /\ \A k \in 1..Len(codeComponents) :
                      codeComponents[k].projectId # handlers["delete"].project

\* what does hold: as long as no delete request has arrived, every file and
\* every component has the projectId of a stored project
NoFileWithoutProjectBeforeDelete ==
    handlers["delete"].pc = "idle"
        => /\ \A k \in 1..Len(projectFiles) : OfStoredProject(projectFiles[k])
           /\ \A k \in 1..Len(codeComponents) : OfStoredProject(codeComponents[k])

\* the project of the GitHub request was deleted, all of deleteProject, while
\* downloadGitHubRepo was awaited, and the request has then stored a file and
\* a component for it
FileAddedAfterDeleteReached ==
    /\ DeleteReturnedTrue
    /\ handlers["delete"].project = "github"
    /\ handlers["github"].pc = "done"
    /\ handlers["github"].response = [status |-> 200, body |-> Undefined]
    /\ \E k \in 1..Len(projectFiles) : projectFiles[k].projectId = "github"
    /\ \E k \in 1..Len(codeComponents) : codeComponents[k].projectId = "github"

====
